---- MODULE Spec2Model ----
(***************************************************************************)
(* KrishMitra-AI: the multi-turn orchestration engine.                     *)
(*   services/api/app/conversation_context.py  session store + heuristics  *)
(*   services/api/app/supervisor.py            entry point + workflow      *)
(* Texts are TLA+ strings; Python's substring, startswith, split and the   *)
(* regular expressions of the source are computed character by character.  *)
(* The source holds non-ASCII literals and backquotes that SANY cannot    *)
(* lex; they are written with the ASCII stand-ins named below, which no text of *)
(* the model uses for anything else.                                       *)
(***************************************************************************)
EXTENDS Integers, Sequences, FiniteSets, TLC

(***************************************************************************)
(* Characters                                                              *)
(***************************************************************************)
\* conversation_context.py:121 the two characters (U+00E2 U+201A) that the
\* cost pattern requires before an amount, and the optional third (U+00B9).
RupeeLead == "^~"
RupeeTail == "|"
\* conversation_context.py:175 the three-character bullet literal.
BulletLit == "^@&"
\* supervisor.py:620-624 the markdown code fence, three backquotes.
Fence == "###"

Digits == {"0", "1", "2", "3", "4", "5", "6", "7", "8", "9"}
WhiteSpace == {" ", "\n", "\t"}

UpperCase == <<"A", "B", "C", "D", "E", "F", "G", "H", "I", "J", "K", "L", "M",
               "N", "O", "P", "Q", "R", "S", "T", "U", "V", "W", "X", "Y", "Z">>
LowerCase == <<"a", "b", "c", "d", "e", "f", "g", "h", "i", "j", "k", "l", "m",
               "n", "o", "p", "q", "r", "s", "t", "u", "v", "w", "x", "y", "z">>

CharAt(s, i) == IF i >= 1 /\ i <= Len(s) THEN SubSeq(s, i, i) ELSE ""
IsDigitAt(s, i) == CharAt(s, i) \in Digits
IsSpaceAt(s, i) == CharAt(s, i) \in WhiteSpace

\* s[i:].startswith(p)
StartsAt(s, i, p) ==
    /\ i >= 1
    /\ i + Len(p) - 1 <= Len(s)
    /\ SubSeq(s, i, i + Len(p) - 1) = p

\* p in s
Contains(s, p) == \E i \in 1..Len(s) : StartsAt(s, i, p)

\* s.startswith(p)
StartsWith(s, p) == StartsAt(s, 1, p)

\* s.endswith(p)
EndsWith(s, p) == Len(p) <= Len(s) /\ StartsAt(s, Len(s) - Len(p) + 1, p)

LowerChar(c) ==
    IF \E k \in 1..26 : UpperCase[k] = c
    THEN LowerCase[CHOOSE k \in 1..26 : UpperCase[k] = c]
    ELSE c

RECURSIVE LowerFrom(_, _)
LowerFrom(s, i) ==
    IF i > Len(s) THEN "" ELSE LowerChar(CharAt(s, i)) \o LowerFrom(s, i + 1)

\* str.lower()
Lower(s) == LowerFrom(s, 1)

\* index of the first character at or after i that is not whitespace
RECURSIVE SkipSpaces(_, _)
SkipSpaces(s, i) == IF IsSpaceAt(s, i) THEN SkipSpaces(s, i + 1) ELSE i

\* index of the last character at or before i that is not whitespace
RECURSIVE SkipSpacesBack(_, _)
SkipSpacesBack(s, i) == IF IsSpaceAt(s, i) THEN SkipSpacesBack(s, i - 1) ELSE i

\* str.strip()
Strip(s) == SubSeq(s, SkipSpaces(s, 1), SkipSpacesBack(s, Len(s)))

\* len(s.split()): the number of maximal runs of non-whitespace
WordCount(s) ==
    Cardinality({i \in 1..Len(s) : ~IsSpaceAt(s, i) /\ (i = 1 \/ IsSpaceAt(s, i - 1))})

\* last index of the digit run \d+ that starts at i (i - 1 when there is none)
RECURSIVE DigitsEnd(_, _)
DigitsEnd(s, i) == IF IsDigitAt(s, i) THEN DigitsEnd(s, i + 1) ELSE i - 1

\* last index of \d+(?:\.\d+)? matched greedily at i (i - 1 when no digit at i)
NumEnd(s, i) ==
    LET e == DigitsEnd(s, i)
    IN  IF e >= i /\ CharAt(s, e + 1) = "." /\ IsDigitAt(s, e + 2)
        THEN DigitsEnd(s, e + 2)
        ELSE e

\* last index of (?:,\d+)* matched greedily after index e
RECURSIVE CommaGroupsEnd(_, _)
CommaGroupsEnd(s, e) ==
    IF CharAt(s, e + 1) = "," /\ IsDigitAt(s, e + 2)
    THEN CommaGroupsEnd(s, DigitsEnd(s, e + 2))
    ELSE e

\* any(k in s for k in items), items a sequence
AnyIn(s, items) == \E k \in 1..Len(items) : Contains(s, items[k])

\* [x for x in items if x in s]
RECURSIVE Mentioned(_, _, _)
Mentioned(s, items, k) ==
    IF k > Len(items) THEN <<>>
    ELSE (IF Contains(s, items[k]) THEN <<items[k]>> ELSE <<>>)
         \o Mentioned(s, items, k + 1)

\* the absent value (Python's None)
None == "None"

(***************************************************************************)
(* ConversationContext: entity extraction                                  *)
(***************************************************************************)
\* last index of  unit s?  at j for one of the unit stems, 0 when none
UnitEnd(s, j, stems) ==
    IF \E u \in stems : StartsAt(s, j, u)
    THEN LET u == CHOOSE u \in stems : StartsAt(s, j, u)
             e == j + Len(u) - 1
         IN  IF CharAt(s, e + 1) = "s" THEN e + 1 ELSE e
    ELSE 0

\* 'land_size': (\d+(?:\.\d+)?)\s*(?:acres?|hectares?)
LandSizeEnd(s, i) ==
    IF IsDigitAt(s, i)
    THEN UnitEnd(s, SkipSpaces(s, NumEnd(s, i) + 1), {"acre", "hectare"})
    ELSE 0
NumberGroup(s, i) == SubSeq(s, i, NumEnd(s, i))

\* 'production': (\d+(?:\.\d+)?)\s*(?:quintals?|kg|tons?)
ProductionEnd(s, i) ==
    IF IsDigitAt(s, i)
    THEN LET j == SkipSpaces(s, NumEnd(s, i) + 1)
         IN  IF StartsAt(s, j, "kg") THEN j + 1
             ELSE UnitEnd(s, j, {"quintal", "ton"})
    ELSE 0

\* 'percentage': (\d+(?:\.\d+)?)%   (the fraction is given up when no % follows it)
PercentageEnd(s, i) ==
    IF ~IsDigitAt(s, i) THEN 0
    ELSE IF CharAt(s, NumEnd(s, i) + 1) = "%" THEN NumEnd(s, i) + 1
    ELSE 0

\* 'cost_amount': the literal of line 121 is  RupeeLead RupeeTail? (\d+(?:,\d+)*(?:\.\d+)?)
CostStart(s, i) ==
    IF StartsAt(s, i, RupeeLead \o RupeeTail) /\ IsDigitAt(s, i + Len(RupeeLead) + Len(RupeeTail))
    THEN i + Len(RupeeLead) + Len(RupeeTail)
    ELSE i + Len(RupeeLead)
CostNumEnd(s, j) ==
    LET e == CommaGroupsEnd(s, DigitsEnd(s, j))
    IN  IF CharAt(s, e + 1) = "." /\ IsDigitAt(s, e + 2) THEN DigitsEnd(s, e + 2) ELSE e
CostAmountEnd(s, i) ==
    IF StartsAt(s, i, RupeeLead) /\ IsDigitAt(s, CostStart(s, i))
    THEN CostNumEnd(s, CostStart(s, i))
    ELSE 0
CostGroup(s, i) == SubSeq(s, CostStart(s, i), CostNumEnd(s, CostStart(s, i)))

PatternEnd(pat, s, i) ==
    CASE pat = "land_size"   -> LandSizeEnd(s, i)
      [] pat = "cost_amount" -> CostAmountEnd(s, i)
      [] pat = "production"  -> ProductionEnd(s, i)
      [] pat = "percentage"  -> PercentageEnd(s, i)
PatternGroup(pat, s, i) ==
    IF pat = "cost_amount" THEN CostGroup(s, i) ELSE NumberGroup(s, i)

\* re.findall over query_lower for one pattern of financial_patterns: the
\* scan tries a match at i, on success records the group and resumes behind
\* the match, otherwise moves one character on.
\* PatternEnd(pat, s, i) is the last index of a match at i (0 when none) and
\* PatternGroup(pat, s, i) the captured text.
RECURSIVE FindAll(_, _, _)
FindAll(pat, s, i) ==
    IF i > Len(s) THEN <<>>
    ELSE LET e == PatternEnd(pat, s, i)
         IN  IF e >= i
             THEN <<PatternGroup(pat, s, i)>> \o FindAll(pat, s, e + 1)
             ELSE FindAll(pat, s, i + 1)

CropNames == <<"wheat", "rice", "cotton", "sugarcane", "maize", "barley", "pulses">>
LocationNames == <<"karnataka", "punjab", "haryana", "gujarat", "maharashtra",
                   "uttar pradesh", "rajasthan">>

EntityTypes == {"land_size", "cost_amount", "production", "percentage", "crops", "locations"}

\* every entity type with its matches (empty when there are none)
EntityMatches(query) ==
    LET q == Lower(query)
    IN  [t \in EntityTypes |->
            CASE t = "crops"     -> Mentioned(q, CropNames, 1)
              [] t = "locations" -> Mentioned(q, LocationNames, 1)
              [] OTHER           -> FindAll(t, q, 1)]

\* ConversationContext._extract_entities: a dict holding only the types that matched
extract_entities(query) ==
    LET m == EntityMatches(query)
    IN  [t \in {u \in EntityTypes : m[u] # <<>>} |-> m[t]]

(***************************************************************************)
(* Specialist responses.  A response dict is a record                      *)
(*   agent      response["agent"]                                          *)
(*   answer     response.get("answer")            "" when absent           *)
(*   advice     response["result"]["advice"]      "" when absent           *)
(*   form_data  "form_data" in response["result"]                          *)
(*   confidence response["confidence"], in thousandths                     *)
(*   evidence   response["evidence"]                                       *)
(***************************************************************************)
\* answer = response.get("result", {}).get("advice", ""); if not answer: answer = response.get("answer", "")
AnswerText(response) ==
    IF response.advice # "" THEN response.advice ELSE response.answer

QuestionIndicators ==
    <<"please share", "please provide", "need more", "can you tell",
      "what is your", "how much", "how many", "which type",
      "^@&% Please share", "information:", "details:", "?", "questions:",
      "form", "fill", "provide details">>

\* ConversationContext._response_has_questions
response_has_questions(response) ==
    \/ response.form_data
    \/ AnyIn(Lower(AnswerText(response)), QuestionIndicators)

FollowupIndicators ==
    <<"please share", "please provide", "need more", "can you tell",
      "what is your", "how much", "how many", "which type",
      "^@&% Please share", "information:", "details:", "form_data">>

\* SupervisorAgent._response_has_followup_questions
response_has_followup_questions(response) ==
    \/ response.form_data
    \/ AnyIn(Lower(AnswerText(response)), FollowupIndicators)

\* last index of the line that holds index j
RECURSIVE LineEnd(_, _)
LineEnd(s, j) ==
    IF j >= Len(s) \/ CharAt(s, j + 1) = "\n" THEN j ELSE LineEnd(s, j + 1)

\* last index of the run [^*]+ that starts at j (j - 1 when s[j] is a star)
RECURSIVE NoStarEnd(_, _)
NoStarEnd(s, j) ==
    IF j <= Len(s) /\ CharAt(s, j) # "*" THEN NoStarEnd(s, j + 1) ELSE j - 1

\* last index of the lead of a question pattern at i, 0 when it does not start at i
LeadEnd(pat, s, i) ==
    CASE pat = "bold"     -> IF StartsAt(s, i, "**") /\ IsDigitAt(s, i + 2)
                                /\ CharAt(s, DigitsEnd(s, i + 2) + 1) = "."
                             THEN DigitsEnd(s, i + 2) + 1 ELSE 0
      [] pat = "numbered" -> IF IsDigitAt(s, i) /\ CharAt(s, DigitsEnd(s, i) + 1) = "."
                             THEN DigitsEnd(s, i) + 1 ELSE 0
      [] pat = "bullet"   -> IF StartsAt(s, i, BulletLit) THEN i + Len(BulletLit) - 1 ELSE 0
      [] pat = "dash"     -> IF CharAt(s, i) = "-" THEN i ELSE 0

\* first index of the captured group of a question pattern whose lead ends at e:
\* \s* is greedy; at the end of the text it gives characters back until the
\* group can start on a character that is not a newline (0: no match).
RECURSIVE GroupStartBack(_, _, _)
GroupStartBack(s, e, k) ==
    IF k <= e THEN 0
    ELSE IF CharAt(s, k) # "\n" THEN k
    ELSE GroupStartBack(s, e, k - 1)
GroupStart(s, e) ==
    LET j == SkipSpaces(s, e + 1)
    IN  IF j <= Len(s) THEN j ELSE GroupStartBack(s, e, Len(s))

\* last index of the captured group that starts at j
GroupEnd(pat, s, j) ==
    IF pat = "bold" THEN NoStarEnd(s, j) ELSE LineEnd(s, j)

\* the bold pattern's [^*]+ is greedy and must be followed by **; it cannot
\* be shortened to end before a star, so the match stands or falls there
QuestionMatches(pat, s, i) ==
    LET e == LeadEnd(pat, s, i)
        j == IF e = 0 THEN 0 ELSE GroupStart(s, e)
    IN  /\ e > 0
        /\ j > 0
        /\ pat = "bold" =>
              /\ CharAt(s, j) # "*"
              /\ StartsAt(s, GroupEnd(pat, s, j) + 1, "**")

\* re.findall(pattern, answer) for one of question_patterns
RECURSIVE FindQuestions(_, _, _)
FindQuestions(pat, s, i) ==
    IF i > Len(s) THEN <<>>
    ELSE IF QuestionMatches(pat, s, i)
         THEN LET j == GroupStart(s, LeadEnd(pat, s, i))
                  g == GroupEnd(pat, s, j)
              IN  <<SubSeq(s, j, g)>>
                  \o FindQuestions(pat, s, IF pat = "bold" THEN g + 3 ELSE g + 1)
         ELSE FindQuestions(pat, s, i + 1)

\* [q.strip() for q in questions if q.strip()]
RECURSIVE StripAll(_)
StripAll(qs) ==
    IF qs = <<>> THEN <<>>
    ELSE (IF Strip(Head(qs)) # "" THEN <<Strip(Head(qs))>> ELSE <<>>) \o StripAll(Tail(qs))

\* ConversationContext._extract_pending_questions: the new pending_questions
extract_pending_questions(response) ==
    LET a == AnswerText(response)
    IN  StripAll(FindQuestions("bold", a, 1) \o FindQuestions("numbered", a, 1)
                 \o FindQuestions("bullet", a, 1) \o FindQuestions("dash", a, 1))

(***************************************************************************)
(* ConversationContext: continuation heuristics                            *)
(***************************************************************************)
FinancialKeywords ==
    <<"acres", "hectares", "quintals", "cost", "spend", "annual",
      "fertilizer", "water", "irrigation", "labor", "machinery",
      "production", "yield", "price", "selling", "farm", "land">>

\* re.search(r'<lead>\s+(w1|w2|...)', s)
LeadSpaceWord(s, lead, words) ==
    \E i \in 1..Len(s) :
        /\ StartsAt(s, i, lead)
        /\ IsSpaceAt(s, i + Len(lead))
        /\ \E w \in words : StartsAt(s, SkipSpaces(s, i + Len(lead)), w)

\* re.search(r'\d+\s*(acres?|hectares?|quintals?|rupees?|<rupee literal>)', s)
NumberWithUnit(s) ==
    \E i \in 1..Len(s) :
        /\ IsDigitAt(s, i)
        /\ \E u \in {"acre", "hectare", "quintal", "rupee", RupeeLead \o RupeeTail} :
              StartsAt(s, SkipSpaces(s, i + 1), u)

\* ConversationContext._contains_requested_information
contains_requested_information(query) ==
    LET query_lower == Lower(query)
        has_financial_info == AnyIn(query_lower, FinancialKeywords)
        has_numbers == \E i \in 1..Len(query) : IsDigitAt(query, i)
        has_financial_patterns ==
            \/ LeadSpaceWord(query_lower, "my", {"farm", "land", "cost", "production", "spend"})
            \/ LeadSpaceWord(query_lower, "i", {"have", "spend", "produce", "own"})
            \/ NumberWithUnit(query_lower)
    IN  (has_financial_info /\ has_numbers) \/ has_financial_patterns

SwitchIndicators ==
    <<"now tell me about", "what about", "instead", "rather than",
      "forget that", "never mind", "actually", "let's talk about",
      "change topic", "different question", "new question">>

\* ConversationContext._is_explicit_topic_switch
is_explicit_topic_switch(query) == AnyIn(Lower(query), SwitchIndicators)

FollowupWords ==
    <<"also", "and", "my", "i", "yes", "no", "that is", "it is",
      "here are", "the", "additionally", "plus", "furthermore">>

\* ConversationContext._seems_like_followup
seems_like_followup(query) ==
    LET query_lower == Strip(Lower(query))
    IN  /\ WordCount(query_lower) <= 10
        /\ \E k \in 1..Len(FollowupWords) : StartsWith(query_lower, FollowupWords[k])

(***************************************************************************)
(* Specialists (supervisor.py:58-63).  A call of process_query either      *)
(* raises or returns one of the response dicts below; the advice texts are *)
(* the collaborator's and are drawn from AdviceTexts.                      *)
(***************************************************************************)
AgentKeys == {"weather", "crop", "finance", "policy"}

\* agents/*.py: self.name
AgentName(key) == key \o "_agent"

AdvicePlain == "Irrigate early in the morning."
AdviceAsk   == "Please share your farm details:\n1. Farm size in acres\n2. Annual fertilizer cost"
AdviceMark  == "Did you sow wheat already?"
\* supervisor.py:482 the text that synthesis does not take for an answer
AdviceNoAnswer == "No answer"
AdviceTexts == {AdvicePlain, AdviceAsk, AdviceMark, AdviceNoAnswer, ""}

\* the advice texts each specialist is taken to produce (the weather
\* specialist's advice is a text of the collaborator, weather_agent.py:251)
AdviceOf(key) ==
    IF key = "weather" THEN {AdvicePlain, AdviceNoAnswer}
    ELSE IF key = "crop" THEN {AdvicePlain, AdviceMark}
    ELSE IF key = "finance" THEN {AdviceAsk, ""}
    ELSE {AdvicePlain, ""}

\* what process_query of specialist key may return (the finance
\* specialist's empty advice comes with form_data)
AgentResponses(key) ==
    {[agent      |-> AgentName(key),
      answer     |-> "",
      advice     |-> a,
      form_data  |-> (key = "finance" /\ a = ""),
      confidence |-> IF a = AdvicePlain THEN 900 ELSE 600,
      evidence   |-> IF a = AdvicePlain THEN <<key>> ELSE <<>>] : a \in AdviceOf(key)}

NoResponse ==
    [agent |-> None, answer |-> "", advice |-> "", form_data |-> FALSE,
     confidence |-> 0, evidence |-> <<>>]

\* the message of the exception a failing specialist raises
AgentFailure(key) == key \o " agent unavailable"

\* active_agent.replace("_agent", "") if active_agent.endswith("_agent") else active_agent
AgentKeyOf(name) ==
    IF EndsWith(name, "_agent") THEN SubSeq(name, 1, Len(name) - 6) ELSE name

\* the if/elif chain of _pure_llm_agent_selection (lines 735-755): the key executed
SelectedKey(selected_agent) ==
    IF selected_agent \in {"weather", "finance", "policy"} THEN selected_agent ELSE "crop"

(***************************************************************************)
(* The queries of the model, and the heuristics tabulated over them and    *)
(* over the specialists' responses (each entry is the operator's value)    *)
(***************************************************************************)
QueryBare     == "5"
QueryScenario == "My farm is 5 acres and I spend 30000 on fertilizer"
QuerySwitch   == "Actually my farm is 5 acres"
QueryRain     == "Will it rain this week?"
QueryHelp     == "I need help with my farm finances"
Queries == {QueryBare, QueryScenario, QuerySwitch, QueryRain}

BareQuantities == {"5", "30000"}

SwitchQueries ==
    {QuerySwitch,
     "Never mind, what is the price of 5 quintals",
     "Let's talk about irrigation cost, I spend 200",
     "Never mind",
     "What about the weather instead?"}

HeurQueries ==
    BareQuantities \cup SwitchQueries
    \cup {QueryScenario, QueryRain, QueryHelp, "yes", "My crop is wheat", "5 acres",
          "ok thanks", "30000 rupees"}

StoreQueries == {QueryBare}

AllQueries == Queries \cup HeurQueries \cup StoreQueries

AllResponses == UNION {AgentResponses(key) : key \in AgentKeys}

QueryTable ==
    [query \in AllQueries |->
        [entities  |-> extract_entities(query),
         requested |-> contains_requested_information(query),
         switch    |-> is_explicit_topic_switch(query),
         followup  |-> seems_like_followup(query)]]

ResponseTable ==
    [response \in AllResponses |->
        [has_questions |-> response_has_questions(response),
         followup      |-> response_has_followup_questions(response),
         pending       |-> extract_pending_questions(response)]]

\* is_response_to_agent, lines 78-93: the order of the checks, over the
\* values h of the three heuristics for the query
ContinuationChecks(ctx, h) ==
    IF ~ctx.expecting_response \/ ctx.active_agent = None THEN <<FALSE, None>>
    ELSE IF h.requested THEN <<TRUE, ctx.active_agent>>
    ELSE IF h.switch THEN <<FALSE, None>>
    ELSE IF h.followup THEN <<TRUE, ctx.active_agent>>
    ELSE <<FALSE, None>>

\* ConversationContext.is_response_to_agent: <<is_response, agent>>
is_response_to_agent(ctx, query) == ContinuationChecks(ctx, QueryTable[query])

(***************************************************************************)
(* ConversationContext and ConversationContextManager                      *)
(*                                                                         *)
(* A context is a record of the fields that routing reads:                 *)
(*   conversation_history  entries [timestamp, hour, query, agent_used,    *)
(*                         is_followup_question], timestamp the value of   *)
(*                         the interaction clock when it was recorded and  *)
(*                         hour the wall clock then                        *)
(*   active_agent, expecting_response, pending_questions, user_profile,    *)
(*   last_updated (hours).                                                 *)
(* agent_state, context_summary and the last prompt/answer pointers are    *)
(* derived from these and decide nothing here; they are not carried.       *)
(***************************************************************************)
\* conversation_context.py:44  "Keep only last 10 turns"
MaxHistory == 10
\* conversation_context.py:358  timedelta(hours=4)
SessionTimeoutHours == 4

\* ConversationContext.__init__
NewContext(session_id, t) ==
    [session_id            |-> session_id,
     last_updated          |-> t,
     conversation_history  |-> <<>>,
     active_agent          |-> None,
     user_profile          |-> <<>>,
     pending_questions     |-> <<>>,
     expecting_response    |-> FALSE]

\* a slice that keeps every entry
LastNKeepsAll(seq, n) == seq

\* conversation_history[-n:]
LastN(seq, n) ==
    IF Len(seq) > n THEN SubSeq(seq, Len(seq) - n + 1, Len(seq)) ELSE seq

\* a profile update that keeps the entities of the last query only
ProfileOfLastQuery(profile, entities) == entities

\* ConversationContext._update_user_profile: extend each type's list
ExtendProfile(profile, entities) ==
    [t \in (DOMAIN profile) \cup (DOMAIN entities) |->
        (IF t \in DOMAIN profile THEN profile[t] ELSE <<>>)
        \o (IF t \in DOMAIN entities THEN entities[t] ELSE <<>>)]

update_user_profile(profile, query) == ExtendProfile(profile, QueryTable[query].entities)

\* ConversationContext.add_interaction; ts is datetime.now() of the entry,
\* t the hour of last_updated
\* a decision that looks at the caller's flag only
AsksByFlagOnly(is_followup_question, r) == is_followup_question

\* add_interaction, lines 48-62: the response leaves the specialist active
Asks(is_followup_question, r) == is_followup_question \/ r.has_questions

\* an update that leaves the active specialist in place when nothing is asked
ActiveAgentKept(ctx, agent_used, asks) ==
    IF asks THEN agent_used ELSE ctx.active_agent

\* add_interaction, lines 49-61: self.active_agent after the interaction
ActiveAgentAfter(ctx, agent_used, asks) ==
    IF asks THEN agent_used ELSE None

\* add_interaction, lines 33-74, over the values r of the response's checks
Interaction(ctx, query, agent_used, r, is_followup_question, ts, t) ==
    LET asks == Asks(is_followup_question, r)
        interaction == [timestamp            |-> ts,
                        hour                 |-> t,
                        query                |-> query,
                        agent_used           |-> agent_used,
                        is_followup_question |-> is_followup_question]
        appended == Append(ctx.conversation_history, interaction)
    IN  [ctx EXCEPT
            !.conversation_history =
                IF Len(appended) > MaxHistory THEN LastN(appended, MaxHistory) ELSE appended,
            !.last_updated = t,
            !.active_agent = ActiveAgentAfter(ctx, agent_used, asks),
            !.expecting_response = asks,
            !.pending_questions = IF asks THEN r.pending ELSE <<>>,
            !.user_profile = update_user_profile(ctx.user_profile, query)]

add_interaction(ctx, query, agent_used, response, is_followup_question, ts, t) ==
    Interaction(ctx, query, agent_used, ResponseTable[response], is_followup_question, ts, t)

\* ConversationContextManager._cleanup_expired_sessions: the sessions kept
cleanup_expired_sessions(sess, t) ==
    [id \in {i \in DOMAIN sess : ~(t - sess[i].last_updated > SessionTimeoutHours)} |-> sess[id]]

\* json.dumps(payload) of update_context: the fields written to the mirror
ContextPayload(ctx) ==
    [conversation_history |-> LastN(ctx.conversation_history, MaxHistory),
     active_agent         |-> ctx.active_agent,
     user_profile         |-> ctx.user_profile,
     pending_questions    |-> ctx.pending_questions,
     expecting_response   |-> ctx.expecting_response]

\* a restore that leaves the user profile behind
RestoredContextWithoutProfile(session_id, data, t) ==
    [NewContext(session_id, t) EXCEPT
        !.conversation_history = data.conversation_history,
        !.active_agent         = data.active_agent,
        !.pending_questions    = data.pending_questions,
        !.expecting_response   = data.expecting_response]

\* get_or_create_context, lines 380-389: a context restored from the payload
RestoredContext(session_id, data, t) ==
    [NewContext(session_id, t) EXCEPT
        !.conversation_history = data.conversation_history,
        !.active_agent         = data.active_agent,
        !.user_profile         = data.user_profile,
        !.pending_questions    = data.pending_questions,
        !.expecting_response   = data.expecting_response]

\* redis GET "context:<id>" returns a payload: the key exists and its TTL
\* has not run out
RedisHas(mirror, session_id, t) ==
    session_id \in DOMAIN mirror /\ t < mirror[session_id].expires_at

\* ConversationContextManager.get_or_create_context for a given id: the
\* sessions afterwards (with_redis: self._redis is set)
get_or_create_context(sess, mirror, with_redis, session_id, t) ==
    LET kept == cleanup_expired_sessions(sess, t)
        ctx  == IF with_redis /\ RedisHas(mirror, session_id, t)
                THEN RestoredContext(session_id, mirror[session_id].payload, t)
                ELSE NewContext(session_id, t)
    IN  IF session_id \in DOMAIN kept THEN kept
        ELSE [id \in (DOMAIN kept) \cup {session_id} |->
                 IF id = session_id THEN ctx ELSE kept[id]]

\* an update that writes the interaction into a context of its own
update_fresh_context(sess, session_id, query, agent_used, response, is_followup_question, ts, t) ==
    IF session_id \in DOMAIN sess
    THEN [sess EXCEPT ![session_id] =
             add_interaction(NewContext(session_id, t), query, agent_used, response,
                             is_followup_question, ts, t)]
    ELSE sess

\* ConversationContextManager.update_context: the sessions afterwards
update_context_sessions(sess, session_id, query, agent_used, response, is_followup_question, ts, t) ==
    IF session_id \in DOMAIN sess
    THEN [sess EXCEPT ![session_id] =
             add_interaction(sess[session_id], query, agent_used, response,
                             is_followup_question, ts, t)]
    ELSE sess

\* ConversationContextManager.update_context: the mirror afterwards
\* (setex with TTL session_timeout; a failing setex is swallowed)
update_context_mirror(mirror, sess_after, with_redis, setex_ok, session_id, t) ==
    IF session_id \in DOMAIN sess_after /\ with_redis /\ setex_ok
    THEN [id \in (DOMAIN mirror) \cup {session_id} |->
             IF id = session_id
             THEN [payload    |-> ContextPayload(sess_after[session_id]),
                   expires_at |-> t + SessionTimeoutHours]
             ELSE mirror[id]]
    ELSE mirror

\* ConversationContextManager.should_route_to_active_agent
should_route_to_active_agent(sess, session_id, query) ==
    IF session_id \notin DOMAIN sess THEN <<FALSE, None>>
    ELSE is_response_to_agent(sess[session_id], query)

\* the routing context of no session ({} or None in a result)
NoContext ==
    [session_id |-> None, active_agent |-> None, expecting_response |-> FALSE,
     user_profile |-> <<>>, pending_questions |-> <<>>]

\* ConversationContextManager.get_context_for_routing
get_context_for_routing(sess, session_id) ==
    IF session_id \notin DOMAIN sess THEN NoContext
    ELSE [session_id         |-> session_id,
          active_agent       |-> sess[session_id].active_agent,
          expecting_response |-> sess[session_id].expecting_response,
          user_profile       |-> sess[session_id].user_profile,
          pending_questions  |-> sess[session_id].pending_questions]

(***************************************************************************)
(* The generative-language collaborator and JSON                           *)
(*                                                                         *)
(* LLMClient.generate_text returns text and never raises                   *)
(* (llm_client.py:69-111: every branch catches and returns a fixed text).  *)
(* A reply is one of the texts below.  json.loads is the parser of the     *)
(* JSON documents the replies are built from: JsonValue maps each          *)
(* document to its value and every other text raises JSONDecodeError.      *)
(* A value is a record                                                     *)
(*   type                 "object", "list" or "number"                     *)
(*   agents_kind          "list", "number" or "absent" (required_agents)   *)
(*   required_agents      the list when agents_kind = "list"               *)
(*   has_confidence, confidence          (thousandths)                     *)
(*   has_is_valid, is_valid                                                *)
(*   has_final_confidence, final_confidence  (thousandths)                 *)
(***************************************************************************)
JsonBlank ==
    [type |-> "object", agents_kind |-> "absent", required_agents |-> <<>>,
     has_confidence |-> FALSE, confidence |-> 0,
     has_is_valid |-> FALSE, is_valid |-> TRUE,
     has_final_confidence |-> FALSE, final_confidence |-> 0]

AnalysisValue(agents) ==
    [JsonBlank EXCEPT !.agents_kind = "list", !.required_agents = agents,
                      !.has_confidence = TRUE, !.confidence = 900]

ValidationValue(valid, conf) ==
    [JsonBlank EXCEPT !.has_is_valid = TRUE, !.is_valid = valid,
                      !.has_final_confidence = TRUE, !.final_confidence = conf]

DocFinance        == "{\"required_agents\": [\"finance\"], \"confidence\": 0.9}"
DocWeather        == "{\"required_agents\": [\"weather\"], \"confidence\": 0.9}"
DocPolicyFinance  == "{\"required_agents\": [\"policy\", \"finance\"], \"confidence\": 0.9}"
DocThreeAgents    == "{\"required_agents\": [\"weather\", \"crop\", \"finance\"], \"confidence\": 0.9}"
DocGeneral        == "{\"required_agents\": [\"general\"], \"confidence\": 0.9}"
DocNoAgents       == "{\"required_agents\": [], \"confidence\": 0.9}"
DocAgentsNumber   == "{\"required_agents\": 5}"
DocEmptyObject    == "{}"
DocList           == "[]"
DocNumber         == "5"
DocValid          == "{\"is_valid\": true, \"final_confidence\": 0.8}"
DocInvalid        == "{\"is_valid\": false, \"final_confidence\": 0.4}"

JsonValue ==
    (DocFinance       :> AnalysisValue(<<"finance">>))
 @@ (DocWeather       :> AnalysisValue(<<"weather">>))
 @@ (DocPolicyFinance :> AnalysisValue(<<"policy", "finance">>))
 @@ (DocThreeAgents   :> AnalysisValue(<<"weather", "crop", "finance">>))
 @@ (DocGeneral       :> AnalysisValue(<<"general">>))
 @@ (DocNoAgents      :> AnalysisValue(<<>>))
 @@ (DocAgentsNumber  :> [JsonBlank EXCEPT !.agents_kind = "number"])
 @@ (DocEmptyObject   :> JsonBlank)
 @@ (DocList          :> [JsonBlank EXCEPT !.type = "list"])
 @@ (DocNumber        :> [JsonBlank EXCEPT !.type = "number"])
 @@ (DocValid         :> ValidationValue(TRUE, 800))
 @@ (DocInvalid       :> ValidationValue(FALSE, 400))

\* json.loads(text) succeeds (surrounding whitespace is allowed)
json_parses(text) == Strip(text) \in DOMAIN JsonValue
\* json.loads(text)
json_loads(text) == JsonValue[Strip(text)]

\* llm_client.py:105 and :89, the replies without a working model
NoLLMText == "No LLM available for text generation."
LLMErrorText == "Unable to generate response at this time."

\* text[i:j] with Python's 0-based half-open bounds
Slice(text, i, j) == SubSeq(text, i + 1, j)

\* str.find('{'): 0-based index of the first brace, -1 when there is none
FindOpen(text) ==
    IF Contains(text, "{")
    THEN (CHOOSE i \in 1..Len(text) :
             /\ CharAt(text, i) = "{"
             /\ \A k \in 1..(i - 1) : CharAt(text, k) # "{") - 1
    ELSE -1

\* str.rfind('}'): 0-based index of the last brace, -1 when there is none
RFindClose(text) ==
    IF Contains(text, "}")
    THEN (CHOOSE i \in 1..Len(text) :
             /\ CharAt(text, i) = "}"
             /\ \A k \in (i + 1)..Len(text) : CharAt(text, k) # "}") - 1
    ELSE -1

\* _clean_json_response, lines 620-625: the three fence checks, in order
StripJsonFence(response) ==
    IF StartsWith(response, Fence \o "json") THEN Slice(response, 7, Len(response)) ELSE response
StripOpenFence(response) ==
    IF StartsWith(response, Fence) THEN Slice(response, 3, Len(response)) ELSE response
StripCloseFence(response) ==
    IF EndsWith(response, Fence) THEN Slice(response, 0, Len(response) - 3) ELSE response

\* _clean_json_response, lines 631-634
JsonSpan(response, json_start, json_end) ==
    IF json_start # -1 /\ json_end > json_start
    THEN Strip(Slice(response, json_start, json_end))
    ELSE Strip(response)

\* _clean_json_response, lines 628-634
JsonBoundaries(response) == JsonSpan(response, FindOpen(response), RFindClose(response) + 1)

\* SupervisorAgent._clean_json_response
clean_json_response(response) ==
    JsonBoundaries(StripCloseFence(StripOpenFence(StripJsonFence(Strip(response)))))

\* a fallback that names no specialist
FallbackAnalysisNoAgents ==
    [JsonBlank EXCEPT !.agents_kind = "list", !.required_agents = <<>>,
                      !.has_confidence = TRUE, !.confidence = 300]

\* the dict _llm_query_analysis returns on any exception (lines 222-231)
FallbackAnalysis ==
    [JsonBlank EXCEPT !.agents_kind = "list", !.required_agents = <<"crop">>,
                      !.has_confidence = TRUE, !.confidence = 300]

\* SupervisorAgent._llm_query_analysis on the reply llm_response: the parsed
\* object; a reply that does not parse, or parses to something without
\* .get (a list, a number), raises inside the try and yields the fallback
ParsedAnalysis(cleaned_json) ==
    IF json_parses(cleaned_json) /\ json_loads(cleaned_json).type = "object"
    THEN json_loads(cleaned_json)
    ELSE FallbackAnalysis

llm_query_analysis(llm_response) == ParsedAnalysis(clean_json_response(llm_response))

(***************************************************************************)
(* State                                                                   *)
(***************************************************************************)
VARIABLES
    sessions,   \* conversation_manager.sessions: session id -> context
    redis,      \* the key-value mirror: session id -> [payload, expires_at]
    use_redis,  \* conversation_manager._redis is set
    finance_sessions, \* finance_session_manager.sessions: session id -> session
    now,        \* wall clock, hours
    clock,      \* interactions recorded so far (orders their timestamps)
    generated,  \* session ids generated so far
    ncalls,     \* calls finished so far
    pc,         \* position of the call in progress ("idle" between calls)
    req,        \* the call's arguments
    sid,        \* the local session_id of _process_query_sync
    wf,         \* the workflow's AgentState
    wf_steps,   \* graph steps taken by the workflow run
    local,      \* locals of the synchronous path
    faults,     \* the specialists' failures during the call in progress
    result,     \* the dict the call returns (read when pc = "done")
    obs         \* what the call has done so far (observation only)

vars == <<sessions, redis, use_redis, finance_sessions, now, clock, generated, ncalls,
          pc, req, sid, wf, wf_steps, local, faults, result, obs>>

store_vars == <<sessions, redis, use_redis, finance_sessions, now, clock>>
call_vars == <<generated, ncalls, pc, req, sid, wf, wf_steps, local, faults, result, obs>>

(***************************************************************************)
(* Bounds and inputs                                                       *)
(***************************************************************************)
MaxCalls == 2
MaxNow == 5
MaxUpdates == 12
MaxGlitches == 1

SessionIds == {"s1"}

\* replies of the collaborator to the analysis prompt
AnalysisReplies ==
    {NoLLMText, LLMErrorText,
     Fence \o "json\n" \o DocFinance \o "\n" \o Fence,
     "Here is my analysis: " \o DocWeather \o " I hope it helps.",
     DocPolicyFinance, DocThreeAgents, DocGeneral, DocNoAgents, DocAgentsNumber, DocList}

\* replies to the generic-advice, synthesis and improvement prompts
AdviceReplies == {"Rotate crops and test the soil.", NoLLMText}

\* replies to the validation prompt
ValidationReplies ==
    {DocValid, DocInvalid, DocEmptyObject, DocNumber, NoLLMText,
     Fence \o "json\n" \o DocInvalid \o "\n" \o Fence}

\* session_id = f"session_{datetime.now().timestamp()}": a fresh id per call
GeneratedId(n) == "session_" \o ToString(n)

(***************************************************************************)
(* Blank values                                                            *)
(***************************************************************************)
\* conversation_manager.get_context_for_routing(session_id) if session_id else None
ContextForResult(sess, session_id) ==
    IF session_id # None /\ session_id \in DOMAIN sess
    THEN get_context_for_routing(sess, session_id)
    ELSE NoContext

NoRequest == [query |-> "", session_id |-> None, in_loop |-> FALSE]

\* AgentState(...) of process_query_async, lines 953-965
InitialState ==
    [agents_kind     |-> "list",
     required_agents |-> <<>>,
     agent_responses |-> <<>>,
     final_answer    |-> "",
     evidence        |-> <<>>,
     confidence      |-> 0,
     workflow_step   |-> "started",
     error           |-> ""]

\* down: specialists whose calls raise for the rest of the call in
\* progress; glitches: single calls that raised without such an outage
NoFaults == [down |-> {}, glitches |-> 0]

NoLocal ==
    [is_response_to_agent |-> FALSE, active_agent |-> None,
     selected_agent |-> None, agent_name |-> None, response |-> NoResponse]

NoResult ==
    [answer |-> "", evidence |-> <<>>, confidence |-> 0, agents_consulted |-> <<>>,
     agent_used |-> None, workflow_trace |-> None,
     has_session_id |-> FALSE, session_id |-> None,
     conversation_context |-> NoContext]

\* analysis: calls of _llm_query_analysis; executed: specialist calls, in
\* order, with the query each was given; synthesized, validated: runs of
\* the two workflow nodes; recorded: interactions added by update_context;
\* failed: an exception reached an except block that returns an error dict,
\* or the workflow state carried an error at its end; raised: the steps in
\* which an exception was raised ("active": the active specialist's call
\* on a continuation, "specialist": any other specialist call, "selection",
\* "routing", "validation", "store", "graph"); required: the analysis's
\* list of specialists; validation: the reply to the validation prompt;
\* synthesis_calls: calls of generate_text by the synthesis node;
\* fallback: _llm_query_analysis returned the dict of its except block;
\* analysis_confidence: analysis.get("confidence", 0.7) of the last analysis
NoObs ==
    [analysis |-> 0, executed |-> <<>>, synthesized |-> 0, validated |-> 0,
     recorded |-> 0, failed |-> FALSE, continuation |-> FALSE,
     raised |-> {}, required |-> <<>>, validation |-> "", synthesis_calls |-> 0,
     fallback |-> FALSE, analysis_confidence |-> 0]

\* an error dict that carries the default confidence of a successful result
ErrorResultKeepsConfidence(message, agent_used, trace) ==
    [NoResult EXCEPT
        !.answer = "I encountered an error: " \o message,
        !.confidence = 700,
        !.agent_used = agent_used,
        !.workflow_trace = trace]

\* the dict of the except blocks (supervisor.py:1000-1007, 1030-1037, 1089-1096)
ErrorResult(message, agent_used, trace) ==
    [NoResult EXCEPT
        !.answer = "I encountered an error: " \o message,
        !.agent_used = agent_used,
        !.workflow_trace = trace]

\* one more run of _llm_query_analysis, with what it returned
Analyzed(o, analysis) ==
    [o EXCEPT !.analysis = @ + 1,
              !.required = analysis.required_agents,
              !.fallback = (analysis = FallbackAnalysis),
              !.analysis_confidence = IF analysis.has_confidence
                                      THEN analysis.confidence ELSE 700]

(***************************************************************************)
(* SupervisorAgent.process_query and the synchronous path                  *)
(***************************************************************************)
\* a call of specialist key returns: the specialist is not down
AgentAnswers(key) ==
    /\ key \notin faults.down
    /\ UNCHANGED faults

\* a call of specialist key raises: it is down, or goes down, or this one
\* call fails
AgentRaises(key) ==
    \/ /\ key \in faults.down
       /\ UNCHANGED faults
    \/ /\ key \notin faults.down
       /\ faults' = [faults EXCEPT !.down = @ \cup {key}]
    \/ /\ key \notin faults.down
       /\ faults.glitches < MaxGlitches
       /\ faults' = [faults EXCEPT !.glitches = @ + 1]

\* a choice of strategy that looks at the session id only
UsesSyncPathForSessionsOnly(session_id, in_loop) == session_id # None

\* process_query, lines 1012-1027: a session id, or a running event loop,
\* selects _process_query_sync; otherwise asyncio.run(process_query_async)
UsesSyncPath(session_id, in_loop) == session_id # None \/ in_loop

Call(query, session_id, in_loop) ==
    /\ pc = "idle"
    /\ ncalls < MaxCalls
    /\ req' = [query |-> query, session_id |-> session_id, in_loop |-> in_loop]
    /\ sid' = session_id
    /\ pc' = IF UsesSyncPath(session_id, in_loop) THEN "sync_start" ELSE "analyze_query"
    /\ wf' = InitialState
    /\ wf_steps' = 0
    /\ local' = NoLocal
    /\ faults' = NoFaults
    /\ result' = NoResult
    /\ obs' = NoObs
    /\ UNCHANGED <<store_vars, generated, ncalls>>

\* _process_query_sync, lines 1043-1048: generate an id when none was given,
\* then get_or_create_context.  The mirror is read when the session is not in
\* memory; a failing read raises into the except block of line 1087.
SyncGetContext ==
    /\ pc = "sync_start"
    /\ LET id == IF sid = None THEN GeneratedId(generated + 1) ELSE sid
           kept == cleanup_expired_sessions(sessions, now)
       IN  /\ sid' = id
           /\ \E get_ok \in (IF use_redis /\ id \notin DOMAIN kept THEN BOOLEAN ELSE {TRUE}) :
                IF get_ok
                THEN /\ sessions' = get_or_create_context(sessions, redis, use_redis, id, now)
                     /\ pc' = "sync_check"
                     /\ UNCHANGED <<result, obs>>
                ELSE /\ sessions' = kept
                     /\ pc' = "done"
                     /\ result' = ErrorResult("mirror unavailable", "supervisor_sync", "sync_error")
                     /\ obs' = [obs EXCEPT !.failed = TRUE, !.raised = @ \cup {"store"}]
    /\ generated' = IF sid = None THEN generated + 1 ELSE generated
    /\ UNCHANGED <<redis, use_redis, finance_sessions, now, clock, ncalls, req, wf, wf_steps, local, faults>>

\* _process_query_sync, lines 1050-1060: the continuation check
RoutesToActive(r) == r[1] /\ r[2] # None

SyncCheck ==
    /\ pc = "sync_check"
    /\ \E r \in {should_route_to_active_agent(sessions, sid, req.query)} :
           /\ local' = [local EXCEPT !.is_response_to_agent = r[1], !.active_agent = r[2]]
           /\ pc' = IF RoutesToActive(r) THEN "route_active" ELSE "select_analyze"
           /\ obs' = [obs EXCEPT !.continuation = RoutesToActive(r)]
    /\ UNCHANGED <<store_vars, generated, ncalls, req, sid, wf, wf_steps, faults, result>>

\* a failing active specialist that is simply called again
AfterActiveFailureRetry == "route_active"

\* where _route_to_active_agent goes when the active specialist's call raises
\* (line 797-799: return self._pure_llm_agent_selection(...))
AfterActiveFailure == "select_analyze"

\* _route_to_active_agent, lines 770-799
RouteToActiveAgent ==
    /\ pc = "route_active"
    /\ LET agent_key == AgentKeyOf(local.active_agent)
           called == [obs EXCEPT !.executed = Append(@, [agent |-> agent_key, query |-> req.query])]
       IN  IF agent_key \in AgentKeys
           THEN \/ \E response \in AgentResponses(agent_key) :
                     /\ AgentAnswers(agent_key)
                     /\ local' = [local EXCEPT !.agent_name = AgentName(agent_key),
                                               !.response = response]
                     /\ pc' = "sync_update"
                     /\ obs' = called
                \/ /\ AgentRaises(agent_key)
                   /\ pc' = AfterActiveFailure
                   /\ obs' = [called EXCEPT !.raised = @ \cup {"active"}]
                   /\ UNCHANGED local
           ELSE /\ pc' = "select_analyze"
                /\ UNCHANGED <<local, faults, obs>>
    /\ UNCHANGED <<store_vars, generated, ncalls, req, sid, wf, wf_steps, result>>

\* _pure_llm_agent_selection, lines 722-732: analysis, then
\* required_agents[0] if required_agents else "crop"
SelectAnalyze ==
    /\ pc = "select_analyze"
    /\ \E reply \in AnalysisReplies :
          \E analysis \in {llm_query_analysis(reply)} :
          LET counted == Analyzed(obs, analysis)
          IN  IF analysis.agents_kind = "number"
              THEN /\ pc' = "done"
                   /\ result' = ErrorResult("'int' object is not subscriptable",
                                            "supervisor_sync", "sync_error")
                   /\ obs' = [counted EXCEPT !.failed = TRUE, !.raised = @ \cup {"selection"}]
                   /\ UNCHANGED local
              ELSE /\ pc' = "select_execute"
                   /\ local' = [local EXCEPT !.selected_agent =
                                   IF analysis.agents_kind = "absent" THEN "crop"
                                   ELSE IF analysis.required_agents = <<>> THEN "crop"
                                   ELSE analysis.required_agents[1]]
                   /\ obs' = counted
                   /\ UNCHANGED result
    /\ UNCHANGED <<store_vars, generated, ncalls, req, sid, wf, wf_steps, faults>>

\* _pure_llm_agent_selection, lines 734-768: the selected specialist's call;
\* an exception leaves through the except block of line 1087
SelectExecute ==
    /\ pc = "select_execute"
    /\ LET key == SelectedKey(local.selected_agent)
           called == [obs EXCEPT !.executed = Append(@, [agent |-> key, query |-> req.query])]
       IN  \/ \E response \in AgentResponses(key) :
                /\ AgentAnswers(key)
                /\ local' = [local EXCEPT !.agent_name = AgentName(key), !.response = response]
                /\ pc' = "sync_update"
                /\ obs' = called
                /\ UNCHANGED result
           \/ /\ AgentRaises(key)
              /\ pc' = "done"
              /\ result' = ErrorResult(AgentFailure(key), "supervisor_sync", "sync_error")
              /\ obs' = [called EXCEPT !.failed = TRUE, !.raised = @ \cup {"specialist"}]
              /\ UNCHANGED local
    /\ UNCHANGED <<store_vars, generated, ncalls, req, sid, wf, wf_steps>>

\* response.get('answer') or response.get('result', {}).get('advice') or "I'm sorry, ..."
SyncAnswer(response) ==
    IF response.answer # "" THEN response.answer
    ELSE IF response.advice # "" THEN response.advice
    ELSE "I'm sorry, I couldn't generate a specific answer for your query."

\* final_result of _process_query_sync, lines 1073-1082
SyncResult(sess, session_id, agent_name, response) ==
    [answer               |-> SyncAnswer(response),
     evidence             |-> response.evidence,
     confidence           |-> response.confidence,
     agents_consulted     |-> <<agent_name>>,
     agent_used           |-> "supervisor_sync",
     workflow_trace       |-> "sync_execution",
     has_session_id       |-> TRUE,
     session_id           |-> session_id,
     conversation_context |-> ContextForResult(sess, session_id)]

\* _process_query_sync, lines 1062-1085: update_context (add_interaction and
\* the write to the mirror), then the result
SyncUpdate ==
    /\ pc = "sync_update"
    /\ \E setex_ok \in (IF use_redis THEN BOOLEAN ELSE {TRUE}) :
          \E after \in {update_context_sessions(sessions, sid, req.query, local.agent_name,
                                                  local.response,
                                                  ResponseTable[local.response].followup,
                                                  clock + 1, now)} :
              /\ sessions' = after
              /\ redis' = update_context_mirror(redis, after, use_redis, setex_ok, sid, now)
              /\ result' = SyncResult(after, sid, local.agent_name, local.response)
    /\ clock' = IF sid \in DOMAIN sessions THEN clock + 1 ELSE clock
    /\ obs' = [obs EXCEPT !.recorded = IF sid \in DOMAIN sessions THEN @ + 1 ELSE @]
    /\ pc' = "done"
    /\ UNCHANGED <<use_redis, finance_sessions, now, generated, ncalls, req, sid, wf, wf_steps, local, faults>>

\* the call returns to its caller
Return ==
    /\ pc = "done"
    /\ pc' = "idle"
    /\ ncalls' = ncalls + 1
    /\ req' = NoRequest
    /\ sid' = None
    /\ wf' = InitialState
    /\ wf_steps' = 0
    /\ local' = NoLocal
    /\ faults' = NoFaults
    /\ result' = NoResult
    /\ obs' = NoObs
    /\ UNCHANGED <<store_vars, generated>>

(***************************************************************************)
(* The workflow graph (process_query_async, _build_workflow and its nodes) *)
(***************************************************************************)
\* graph.ainvoke(initial_state, config) at supervisor.py:970 passes no
\* recursion_limit: the graph library stops a run with GraphRecursionError
\* after its default of 25 steps.
RecursionLimit == 25

NodePcs == {"analyze_query", "route_to_agents", "synthesize_response", "validate_response"}
           \cup {"execute_" \o k : k \in AgentKeys}

CanStep == wf_steps < RecursionLimit

\* _should_route_to_agents, lines 233-247, as the node that follows analysis
should_route_to_agents(state) ==
    IF state.error # "" THEN "wf_end"
    ELSE IF state.agents_kind = "list" /\ state.required_agents = <<>> THEN "synthesize_response"
    ELSE "route_to_agents"

\* _analyze_query, lines 128-159
AnalyzeQuery ==
    /\ pc = "analyze_query"
    /\ CanStep
    /\ \E reply \in AnalysisReplies :
          \E analysis \in {llm_query_analysis(reply)} :
          LET state == [wf EXCEPT
                          !.agents_kind = IF analysis.agents_kind = "absent" THEN "list"
                                          ELSE analysis.agents_kind,
                          !.required_agents = analysis.required_agents,
                          !.workflow_step = "query_analyzed"]
          IN  /\ wf' = state
              /\ pc' = should_route_to_agents(state)
              /\ obs' = Analyzed(obs, analysis)
    /\ wf_steps' = wf_steps + 1
    /\ UNCHANGED <<store_vars, generated, ncalls, req, sid, local, faults, result>>

\* lines 262-268: the base names of the specialists that have answered
RECURSIVE ExecutedAgentNames(_)
ExecutedAgentNames(responses) ==
    IF responses = <<>> THEN <<>>
    ELSE <<AgentKeyOf(Head(responses).agent)>> \o ExecutedAgentNames(Tail(responses))

InSeq(x, seq) == \E k \in 1..Len(seq) : seq[k] = x

\* line 270: [agent for agent in required_agents if agent not in executed_agent_names]
RECURSIVE PendingAgents(_, _)
PendingAgents(required, executed) ==
    IF required = <<>> THEN <<>>
    ELSE (IF InSeq(Head(required), executed) THEN <<>> ELSE <<Head(required)>>)
         \o PendingAgents(Tail(required), executed)

\* a router that takes the pending specialists in the order of the list
NextWorkflowStepInListOrder(pending_agents) ==
    IF pending_agents = <<>> THEN "all_agents_executed"
    ELSE IF Head(pending_agents) \in AgentKeys THEN "executing_" \o Head(pending_agents)
    ELSE "synthesizing"

\* lines 273-299: the workflow_step the router sets
NextWorkflowStep(pending_agents) ==
    IF pending_agents = <<>> THEN "all_agents_executed"
    ELSE IF InSeq("weather", pending_agents) THEN "executing_weather"
    ELSE IF InSeq("crop", pending_agents) THEN "executing_crop"
    ELSE IF InSeq("finance", pending_agents) THEN "executing_finance"
    ELSE IF InSeq("policy", pending_agents) THEN "executing_policy"
    ELSE "synthesizing"

\* _determine_agent_execution, lines 308-330, as the node that follows
determine_agent_execution(workflow_step) ==
    IF workflow_step = "executing_weather" THEN "execute_weather"
    ELSE IF workflow_step = "executing_crop" THEN "execute_crop"
    ELSE IF workflow_step = "executing_finance" THEN "execute_finance"
    ELSE IF workflow_step = "executing_policy" THEN "execute_policy"
    ELSE "synthesize_response"

\* _route_to_agents, lines 249-306: iterating a required_agents that is no
\* list raises TypeError, which the except block records
route_to_agents(state) ==
    IF state.agents_kind # "list"
    THEN [state EXCEPT !.error = "Agent routing failed: 'int' object is not iterable",
                       !.workflow_step = "error"]
    ELSE [state EXCEPT !.workflow_step =
             NextWorkflowStep(PendingAgents(state.required_agents,
                                            ExecutedAgentNames(state.agent_responses)))]

RouteToAgents ==
    /\ pc = "route_to_agents"
    /\ CanStep
    /\ wf' = route_to_agents(wf)
    /\ pc' = determine_agent_execution(wf'.workflow_step)
    /\ obs' = IF wf.agents_kind # "list" THEN [obs EXCEPT !.raised = @ \cup {"routing"}] ELSE obs
    /\ wf_steps' = wf_steps + 1
    /\ UNCHANGED <<store_vars, generated, ncalls, req, sid, local, faults, result>>

\* _execute_weather_agent / _crop_ / _finance_ / _policy_, lines 332-442
ExecuteAgent(key) ==
    /\ pc = "execute_" \o key
    /\ CanStep
    /\ LET called == [obs EXCEPT !.executed = Append(@, [agent |-> key, query |-> req.query])]
       IN  \/ \E response \in AgentResponses(key) :
                /\ AgentAnswers(key)
                /\ wf' = [wf EXCEPT !.agent_responses = Append(@, response),
                                    !.workflow_step = key \o "_executed"]
                /\ obs' = called
           \/ /\ AgentRaises(key)
              /\ wf' = [wf EXCEPT !.error = key \o " agent failed: " \o AgentFailure(key),
                                  !.workflow_step = "error"]
              /\ obs' = [called EXCEPT !.raised = @ \cup {"specialist"}]
    /\ pc' = "route_to_agents"
    /\ wf_steps' = wf_steps + 1
    /\ UNCHANGED <<store_vars, generated, ncalls, req, sid, local, result>>

RECURSIVE SumConfidence(_)
SumConfidence(responses) ==
    IF responses = <<>> THEN 0
    ELSE Head(responses).confidence + SumConfidence(Tail(responses))

RECURSIVE AllEvidence(_)
AllEvidence(responses) ==
    IF responses = <<>> THEN <<>>
    ELSE Head(responses).evidence \o AllEvidence(Tail(responses))

\* line 464: the fixed confidence of an answer without specialist results
GenericConfidence == 300

\* a synthesis confidence without the fixed value for zero results
SynthesisConfidenceMeanOnly(responses) ==
    IF responses = <<>> THEN 0
    ELSE SumConfidence(responses) \div Len(responses)

\* lines 520-522 and 530: round(sum(confidences) / len(confidences), 3), in
\* thousandths (the responses' confidences are whole hundredths, so the
\* mean of one or two of them is a whole number of thousandths)
SynthesisConfidence(responses) ==
    IF responses = <<>> THEN GenericConfidence
    ELSE SumConfidence(responses) \div Len(responses)

\* a direct answer that reads the "answer" key only
DirectAnswerWithoutAdvice(response) == response.answer

\* lines 475-482: the specialist's own text, "" when it has none
DirectAnswer(response) ==
    IF response.answer # "" THEN response.answer ELSE response.advice

\* lines 452-518: the answer is the collaborator's reply unless exactly one
\* specialist answered with a usable text
UsesDirectAnswer(responses) ==
    /\ Len(responses) = 1
    /\ DirectAnswer(responses[1]) # ""
    /\ DirectAnswer(responses[1]) # "No answer"

\* _synthesize_response, lines 444-540
synthesize_response(state, reply) ==
    [state EXCEPT
        !.final_answer = IF UsesDirectAnswer(state.agent_responses)
                         THEN DirectAnswer(state.agent_responses[1]) ELSE reply,
        !.confidence = SynthesisConfidence(state.agent_responses),
        !.evidence = AllEvidence(state.agent_responses),
        !.workflow_step = "synthesized"]

SynthesizeResponse ==
    /\ pc = "synthesize_response"
    /\ CanStep
    /\ \E reply \in (IF UsesDirectAnswer(wf.agent_responses) THEN {""} ELSE AdviceReplies) :
          wf' = synthesize_response(wf, reply)
    /\ obs' = [obs EXCEPT !.synthesized = @ + 1,
                           !.synthesis_calls =
                               IF UsesDirectAnswer(wf.agent_responses) THEN @ ELSE @ + 1]
    /\ pc' = "validate_response"
    /\ wf_steps' = wf_steps + 1
    /\ UNCHANGED <<store_vars, generated, ncalls, req, sid, local, faults, result>>

\* lines 575-584: json.loads of the raw reply; JSONDecodeError gives the
\* fallback validation, which keeps the confidence
parse_validation(validation_response, confidence) ==
    IF json_parses(validation_response)
    THEN json_loads(validation_response)
    ELSE ValidationValue(TRUE, confidence)

\* _validate_response, lines 542-612; improved is the reply to the
\* improvement prompt.  validation.get on a parsed list or number raises
\* AttributeError, which the except block records.
validate_response(state, validation_response, improved) ==
    LET validation == parse_validation(validation_response, state.confidence)
    IN  IF validation.type # "object"
        THEN [state EXCEPT !.error = "Response validation failed: no attribute 'get'",
                           !.workflow_step = "error"]
        ELSE [state EXCEPT
                 !.final_answer = IF validation.has_is_valid /\ ~validation.is_valid
                                  THEN improved ELSE @,
                 !.confidence = IF validation.has_final_confidence
                                THEN validation.final_confidence ELSE @,
                 !.workflow_step = "validated"]

ValidateResponse ==
    /\ pc = "validate_response"
    /\ CanStep
    /\ \E validation_response \in ValidationReplies, improved \in AdviceReplies :
          /\ wf' = validate_response(wf, validation_response, improved)
          /\ obs' = [obs EXCEPT
                        !.validated = @ + 1,
                        !.validation = validation_response,
                        !.raised = IF wf'.workflow_step = "error"
                                   THEN @ \cup {"validation"} ELSE @]
    /\ pc' = "wf_end"
    /\ wf_steps' = wf_steps + 1
    /\ UNCHANGED <<store_vars, generated, ncalls, req, sid, local, faults, result>>

RECURSIVE AgentsConsulted(_)
AgentsConsulted(responses) ==
    IF responses = <<>> THEN <<>>
    ELSE <<Head(responses).agent>> \o AgentsConsulted(Tail(responses))

\* process_query_async, lines 973-996: the result built from the final state
WorkflowResult(state, session_id) ==
    IF state.error # ""
    THEN [NoResult EXCEPT
             !.answer = "I encountered an error processing your query: " \o state.error,
             !.agent_used = "supervisor",
             !.workflow_trace = state.workflow_step]
    ELSE [answer               |-> state.final_answer,
          evidence             |-> state.evidence,
          confidence           |-> state.confidence,
          agents_consulted     |-> AgentsConsulted(state.agent_responses),
          agent_used           |-> "supervisor",
          workflow_trace       |-> state.workflow_step,
          has_session_id       |-> TRUE,
          session_id           |-> session_id,
          conversation_context |-> ContextForResult(sessions, session_id)]

WorkflowEnd ==
    /\ pc = "wf_end"
    /\ result' = WorkflowResult(wf, req.session_id)
    /\ obs' = [obs EXCEPT !.failed = (wf.error # "")]
    /\ pc' = "done"
    /\ UNCHANGED <<store_vars, generated, ncalls, req, sid, wf, wf_steps, local, faults>>

\* the run exceeds the graph's step limit: GraphRecursionError leaves
\* ainvoke into the except block of lines 998-1007
GraphRecursion ==
    /\ pc \in NodePcs
    /\ ~CanStep
    /\ result' = ErrorResult("Recursion limit of 25 reached", "supervisor", "error")
    /\ obs' = [obs EXCEPT !.failed = TRUE, !.raised = @ \cup {"graph"}]
    /\ pc' = "done"
    /\ UNCHANGED <<store_vars, generated, ncalls, req, sid, wf, wf_steps, local, faults>>

(***************************************************************************)
(* The environment                                                         *)
(***************************************************************************)
\* time passes between calls
ElapseSteps == {1, SessionTimeoutHours, SessionTimeoutHours + 1}
Elapse(d) ==
    /\ pc = "idle"
    /\ now + d <= MaxNow
    /\ now' = now + d
    /\ UNCHANGED <<sessions, redis, use_redis, finance_sessions, clock, call_vars>>

\* the process restarts: conversation_manager is constructed anew
\* (conversation_context.py:356-364, 461); the mirror keeps its keys
Restart ==
    /\ pc = "idle"
    /\ sessions # <<>>
    /\ sessions' = <<>>
    /\ finance_sessions' = <<>>
    /\ UNCHANGED <<redis, use_redis, now, clock, call_vars>>

(***************************************************************************)
(* Specification of the entry point                                        *)
(***************************************************************************)
Init ==
    /\ sessions = <<>>
    /\ redis = <<>>
    /\ use_redis \in BOOLEAN
    /\ finance_sessions = <<>>
    /\ now = 0
    /\ clock = 0
    /\ generated = 0
    /\ ncalls = 0
    /\ pc = "idle"
    /\ req = NoRequest
    /\ sid = None
    /\ wf = InitialState
    /\ wf_steps = 0
    /\ local = NoLocal
    /\ faults = NoFaults
    /\ result = NoResult
    /\ obs = NoObs

Next ==
    \/ \E query \in Queries, session_id \in SessionIds \cup {None}, in_loop \in BOOLEAN :
          Call(query, session_id, in_loop)
    \/ SyncGetContext
    \/ SyncCheck
    \/ RouteToActiveAgent
    \/ SelectAnalyze
    \/ SelectExecute
    \/ SyncUpdate
    \/ AnalyzeQuery
    \/ RouteToAgents
    \/ \E key \in AgentKeys : ExecuteAgent(key)
    \/ SynthesizeResponse
    \/ ValidateResponse
    \/ WorkflowEnd
    \/ GraphRecursion
    \/ Return

Spec == Init /\ [][Next]_vars

(***************************************************************************)
(* Specification of the conversation store: the public operations of       *)
(* ConversationContextManager, time and restarts                           *)
(***************************************************************************)
StoreAgents == {"crop"}

\* conversation_manager.get_or_create_context(session_id); the read of the
\* mirror may raise, after the expired sessions were removed
StoreGet(session_id) ==
    /\ pc = "idle"
    /\ \/ sessions' = get_or_create_context(sessions, redis, use_redis, session_id, now)
       \/ /\ use_redis
          /\ session_id \notin DOMAIN cleanup_expired_sessions(sessions, now)
          /\ sessions' = cleanup_expired_sessions(sessions, now)
    /\ UNCHANGED <<redis, use_redis, finance_sessions, now, clock, call_vars>>

\* conversation_manager.update_context(session_id, query, agent_used,
\* response, is_followup_question)
StoreUpdate(session_id, query, response, setex_ok) ==
    /\ pc = "idle"
    /\ clock < MaxUpdates
    /\ session_id \in DOMAIN sessions
    /\ \E after \in {update_context_sessions(sessions, session_id, query, response.agent,
                                               response, ResponseTable[response].followup,
                                               clock + 1, now)} :
           /\ sessions' = after
           /\ redis' = update_context_mirror(redis, after, use_redis, setex_ok, session_id, now)
    /\ clock' = clock + 1
    /\ UNCHANGED <<use_redis, finance_sessions, now, call_vars>>

InitStore == Init

NextStore ==
    \/ \E session_id \in SessionIds : StoreGet(session_id)
    \/ \E session_id \in SessionIds, query \in StoreQueries, key \in StoreAgents :
          \E response \in AgentResponses(key) :
             StoreUpdate(session_id, query, response, TRUE)
    \/ \E d \in ElapseSteps : Elapse(d)
    \/ Restart

SpecStore == InitStore /\ [][NextStore]_vars

(***************************************************************************)
(* Specification of the continuation heuristics: is_response_to_agent      *)
(* applied, by the continuation check of the synchronous path, to a        *)
(* session left by one recorded interaction and a next query               *)
(***************************************************************************)
\* the session after its first interaction with one specialist's response
HeurContexts ==
    {add_interaction(NewContext("s1", 0), QueryHelp, response.agent, response,
                     ResponseTable[response].followup, 1, 0) :
        response \in AllResponses}

InitHeur ==
    /\ \E ctx \in HeurContexts : sessions = [id \in {"s1"} |-> ctx]
    /\ \E query \in HeurQueries :
          req = [query |-> query, session_id |-> "s1", in_loop |-> FALSE]
    /\ redis = <<>>
    /\ use_redis = FALSE
    /\ finance_sessions = <<>>
    /\ now = 0
    /\ clock = 1
    /\ generated = 0
    /\ ncalls = 0
    /\ pc = "sync_check"
    /\ sid = "s1"
    /\ wf = InitialState
    /\ wf_steps = 0
    /\ local = NoLocal
    /\ faults = NoFaults
    /\ result = NoResult
    /\ obs = NoObs

NextHeur == SyncCheck

SpecHeur == InitHeur /\ [][NextHeur]_vars

(***************************************************************************)
(* Properties.  A call has returned when pc = "done"; result is then the   *)
(* dict it returned and obs what it did.                                   *)
(***************************************************************************)
Returned == pc = "done"

\* the call went through the workflow graph (no session id, no running loop)
OnWorkflowPath == ~UsesSyncPath(req.session_id, req.in_loop)

\* C1: every call returns a result dict, and a result returned after an
\* unrecovered failure (of a specialist, of the routing, of validation, of
\* the store or of the graph run) has confidence 0, no evidence, no
\* consulted specialists and an explanatory answer.
C1_FailureResult ==
    Returned =>
        /\ result.agent_used \in {"supervisor", "supervisor_sync"}
        /\ obs.failed =>
              /\ result.confidence = 0
              /\ result.evidence = <<>>
              /\ result.agents_consulted = <<>>
              /\ StartsWith(result.answer, "I encountered an error")

\* a call returned after a specialist's exception ended it
C1_Witness ==
    Returned /\ obs.failed /\ "specialist" \in obs.raised /\ result.confidence = 0

\* C2: a call in which a specialist execution or validation raised returns
\* workflow_trace "error" and confidence 0, on either path.
C2_ErrorTrace ==
    (Returned /\ obs.raised \cap {"specialist", "validation"} # {}) =>
        /\ result.workflow_trace = "error"
        /\ result.confidence = 0

HeurSession == sessions["s1"]

\* C4: with an active specialist F that expects a response, a bare quantity
\* is classified as a continuation with F.
C4_BareQuantityContinues ==
    (/\ pc # "sync_check"
     /\ HeurSession.expecting_response
     /\ HeurSession.active_agent # None
     /\ req.query \in BareQuantities) =>
        /\ local.is_response_to_agent
        /\ local.active_agent = HeurSession.active_agent

\* C5: a query with an explicit topic-switch phrase is never classified as a
\* continuation, whatever else it contains and whatever the session's state.
C5_TopicSwitchWins ==
    (pc # "sync_check" /\ is_explicit_topic_switch(req.query)) =>
        /\ ~local.is_response_to_agent
        /\ local.active_agent = None

\* every stored history has at most ten entries
HistoryBounded ==
    \A id \in DOMAIN sessions : Len(sessions[id].conversation_history) <= 10

\* update_context leaves the history either unchanged or with the new entry
\* last, preceded by the newest of the old entries in their order
HistoryStep ==
    clock' = clock + 1 =>
        \A id \in DOMAIN sessions' :
            /\ id \in DOMAIN sessions
            /\ LET old == sessions[id].conversation_history
                   new == sessions'[id].conversation_history
                   kept == Len(new) - 1
               IN  \/ new = old
                   \/ /\ Len(new) = (IF Len(old) < 10 THEN Len(old) + 1 ELSE 10)
                      /\ new[Len(new)].timestamp = clock'
                      /\ \A k \in 1..kept : new[k] = old[Len(old) - kept + k]

\* C6: after any sequence of get_or_create_context and update_context
\* (restores from the mirror included) every history has at most 10 entries,
\* and recording an interaction keeps the newest entries in arrival order,
\* dropping the oldest when there would be eleven.
C6_HistoryWindow == []HistoryBounded /\ [][HistoryStep]_vars

\* a full history whose oldest interactions have been dropped
C6_Witness ==
    \E id \in DOMAIN sessions :
        LET h == sessions[id].conversation_history
        IN  /\ Len(h) = 10
            /\ h[1].timestamp > 1
            /\ \A k \in 1..9 : h[k + 1].timestamp = h[k].timestamp + 1

\* C7: every result carries a session_id: the caller's when one was given,
\* otherwise a generated one under which the store holds the conversation.
C7_SessionIdReturned ==
    Returned =>
        /\ result.has_session_id
        /\ req.session_id # None => result.session_id = req.session_id
        /\ req.session_id = None =>
              /\ result.session_id # None
              /\ result.session_id \in DOMAIN sessions

\* C8: a call that obtained a specialist result or a synthesized answer has
\* recorded exactly one interaction when it returns.
C8_OneInteractionRecorded ==
    (Returned /\ (local.agent_name # None \/ obs.synthesized > 0)) =>
        obs.recorded = 1

\* the specialists known to the supervisor among the analysis's list
RequiredKnown == {obs.required[k] : k \in 1..Len(obs.required)} \cap AgentKeys

ExecutedKeys == {obs.executed[k].agent : k \in 1..Len(obs.executed)}

\* C9: a call without continuation in which nothing raised ran the full
\* pipeline: analysis, every required specialist, synthesis, validation.
C9_FullPipeline ==
    (Returned /\ ~obs.continuation /\ obs.raised = {}) =>
        /\ obs.analysis = 1
        /\ RequiredKnown \subseteq ExecutedKeys
        /\ obs.synthesized = 1
        /\ obs.validated = 1

\* a workflow run that was synthesized from zero specialist results
ZeroResultRun == Returned /\ obs.synthesized = 1 /\ wf.agent_responses = <<>>

ValidatorOverrides(reply) ==
    /\ json_parses(reply)
    /\ json_loads(reply).type = "object"
    /\ json_loads(reply).has_final_confidence

SynthesizedOne ==
    /\ pc = "validate_response"
    /\ Len(wf.agent_responses) = 1
    /\ wf.agent_responses[1].advice # ""

\* C11 as stated: after synthesis with exactly one specialist result whose
\* advice is non-empty, the answer is that advice, whatever the text, and
\* the synthesis step has not called the collaborator
C11_AnyAdviceUnchanged ==
    SynthesizedOne =>
        /\ wf.final_answer = wf.agent_responses[1].advice
        /\ obs.synthesis_calls = 0

\* C11 amended: after synthesis with exactly one specialist result whose
\* advice is non-empty, the answer is that advice and the collaborator was
\* not called, unless the advice is the text "No answer"; for that text the
\* synthesis step calls the collaborator once and the answer is its reply
C11_DirectAdvice ==
    SynthesizedOne =>
        IF wf.agent_responses[1].advice # AdviceNoAnswer
        THEN /\ wf.final_answer = wf.agent_responses[1].advice
             /\ obs.synthesis_calls = 0
        ELSE /\ wf.final_answer \in AdviceReplies
             /\ obs.synthesis_calls = 1

C11_Witness ==
    /\ SynthesizedOne
    /\ wf.agent_responses[1].advice = AdviceMark
    /\ wf.final_answer = AdviceMark
    /\ obs.synthesized = 1

\* the context that get_or_create_context builds for id at hour t in a
\* store that holds no session in memory, from the mirror as given
Reloaded(mirror, id, t) ==
    get_or_create_context([i \in {} |-> NoContext], mirror, TRUE, id, t)[id]

\* a step of update_context that wrote the session to the mirror
Persisted ==
    /\ pc = "sync_update"
    /\ use_redis
    /\ sid \in DOMAIN sessions
    /\ redis' # redis

\* C12: whenever update_context has written a session to the mirror, loading
\* it at once through get_or_create_context into a store that does not hold
\* it in memory gives a session with the same active_agent,
\* pending_questions and user_profile
C12_RoundTrip ==
    [][Persisted =>
          LET loaded == Reloaded(redis', sid, now)
              saved == sessions'[sid]
          IN  /\ loaded.active_agent = saved.active_agent
              /\ loaded.pending_questions = saved.pending_questions
              /\ loaded.user_profile = saved.user_profile]_vars

C12_Witness ==
    /\ pc = "done"
    /\ obs.recorded = 1
    /\ use_redis
    /\ sid \in DOMAIN sessions
    /\ sid \in DOMAIN redis
    /\ sessions[sid].active_agent = "finance_agent"
    /\ sessions[sid].pending_questions # <<>>
    /\ "land_size" \in DOMAIN sessions[sid].user_profile
    /\ Reloaded(redis, sid, now).user_profile = sessions[sid].user_profile

\* C13: when the reply to the analysis prompt is the text of an unavailable
\* or failing collaborator, or any text that does not parse to a JSON
\* object, the analysis names at least one specialist with a confidence of
\* at most 0.6, and the call returns a result that is no error result
\* unless an exception was raised elsewhere in the request (by the store,
\* by the selected specialist, by validation or by the graph run)
C13_AnalysisFallback ==
    obs.fallback =>
        /\ obs.required # <<>>
        /\ obs.analysis_confidence <= 600
        /\ (Returned /\ obs.raised \subseteq {"active"}) =>
              /\ ~obs.failed
              /\ ~StartsWith(result.answer, "I encountered an error")
              /\ result.workflow_trace \in {"sync_execution", "validated"}

\* a workflow run whose analysis fell back and that returned a validated answer
C13_Witness ==
    /\ Returned
    /\ OnWorkflowPath
    /\ obs.fallback
    /\ obs.required = <<"crop">>
    /\ obs.raised = {}
    /\ result.workflow_trace = "validated"
    /\ result.agents_consulted = <<"crop_agent">>

\* the advice text of a response holds one of the phrases that
\* _response_has_questions looks for
RequestPhrasing ==
    [response \in AllResponses |->
        AnyIn(Lower(AnswerText(response)), QuestionIndicators)]

\* the call has recorded its one interaction in the session sid
RecordedInSession ==
    Returned /\ obs.recorded = 1 /\ sid \in DOMAIN sessions

\* C14: after an interaction answered by a specialist is recorded, the
\* session has that specialist active and expects a response when the
\* response carries form data or its advice holds request phrasing; when it
\* has neither, no specialist is active, no response is expected and no
\* question is pending
C14_ActiveAfterRecord ==
    RecordedInSession =>
        IF local.response.form_data \/ RequestPhrasing[local.response]
        THEN /\ sessions[sid].active_agent = local.agent_name
             /\ sessions[sid].expecting_response
        ELSE /\ sessions[sid].active_agent = None
             /\ ~sessions[sid].expecting_response
             /\ sessions[sid].pending_questions = <<>>

\* a question asked by the crop specialist leaves it active
C14_Witness ==
    /\ RecordedInSession
    /\ local.response.advice = AdviceMark
    /\ ~local.response.form_data
    /\ sessions[sid].active_agent = "crop_agent"
    /\ sessions[sid].expecting_response

\* C15: with the finance specialist active and expecting a response, the
\* follow-up "My farm is 5 acres and I spend 30000 on fertilizer" is
\* detected as a continuation, is handled by the finance specialist again
\* (when its call returns), and once it is recorded the session's
\* user_profile holds the land size 5 and the cost amount 30000
C15_ScenarioB ==
    /\ (/\ pc \in {"route_active", "select_analyze"}
        /\ obs.analysis = 0
        /\ req.query = QueryScenario
        /\ sid \in DOMAIN sessions
        /\ sessions[sid].active_agent = "finance_agent"
        /\ sessions[sid].expecting_response)
       => obs.continuation
    /\ (/\ RecordedInSession
        /\ req.query = QueryScenario
        /\ obs.continuation
        /\ local.active_agent = "finance_agent"
        /\ "active" \notin obs.raised)
       => /\ local.agent_name = "finance_agent"
          /\ "land_size" \in DOMAIN sessions[sid].user_profile
          /\ "cost_amount" \in DOMAIN sessions[sid].user_profile
          /\ InSeq("5", sessions[sid].user_profile["land_size"])
          /\ InSeq("30000", sessions[sid].user_profile["cost_amount"])

\* C16: the step that records an interaction handled by a specialist leaves
\* the session with that specialist active or with none; a specialist that
\* was active before and did not handle the query is no longer active
C16_OneActiveSpecialist ==
    [][(pc = "sync_update" /\ sid \in DOMAIN sessions) =>
          /\ sessions'[sid].active_agent \in {local.agent_name, None}
          /\ (/\ sessions[sid].active_agent # None
              /\ sessions[sid].active_agent # local.agent_name)
             => sessions'[sid].active_agent # sessions[sid].active_agent]_vars

\* the finance specialist asked, then a new-topic query was answered by the
\* weather specialist and no specialist is active
C16_Witness ==
    /\ RecordedInSession
    /\ Len(sessions[sid].conversation_history) = 2
    /\ sessions[sid].conversation_history[1].agent_used = "finance_agent"
    /\ sessions[sid].conversation_history[2].agent_used = "weather_agent"
    /\ sessions[sid].conversation_history[2].query = QueryRain
    /\ ~obs.continuation
    /\ sessions[sid].active_agent = None

\* the session id is held in memory and its last interaction is older than
\* the inactivity window
LastInteractionExpired(id) ==
    /\ id \in DOMAIN sessions
    /\ sessions[id].conversation_history # <<>>
    /\ LET h == sessions[id].conversation_history
       IN  now - h[Len(h)].hour > SessionTimeoutHours

\* the context that the next get_or_create_context(id) returns
NextContext(id) ==
    get_or_create_context(sessions, redis, use_redis, id, now)[id]

\* C17: for a session whose last interaction is older than the inactivity
\* window, the next get_or_create_context of its id returns a fresh session:
\* no active specialist, no expected response, empty history and empty
\* user_profile, with or without the mirror, also when the session was
\* restored from the mirror earlier
C17_ExpiredIsFresh ==
    \A id \in SessionIds :
        LastInteractionExpired(id) =>
            /\ NextContext(id).active_agent = None
            /\ ~NextContext(id).expecting_response
            /\ NextContext(id).conversation_history = <<>>
            /\ NextContext(id).user_profile = <<>>

SyncPcs ==
    {"sync_start", "sync_check", "route_active", "select_analyze", "select_execute",
     "sync_update"}

\* the call is in, or has returned from, _process_query_sync
SyncStrategy ==
    pc \in SyncPcs \/ (Returned /\ result.agent_used = "supervisor_sync")

\* the call is in, or has returned from, asyncio.run(process_query_async(...))
AsyncStrategy ==
    \/ pc \in NodePcs \cup {"wf_end"}
    \/ wf_steps > 0
    \/ (Returned /\ result.agent_used = "supervisor")

\* C18: a call of process_query runs exactly one of the two strategies; it
\* never runs asyncio.run while an event loop is running; a call made inside
\* a running loop, with or without session id, goes through
\* _process_query_sync and returns that strategy's result
C18_OneStrategy ==
    pc # "idle" =>
        /\ SyncStrategy \/ AsyncStrategy
        /\ ~(SyncStrategy /\ AsyncStrategy)
        /\ req.in_loop => ~AsyncStrategy
        /\ (Returned /\ req.in_loop) =>
              result.workflow_trace \in {"sync_execution", "sync_error"}

\* a call without session id made inside a running loop has returned the
\* synchronous strategy's answer
C18_Witness ==
    /\ Returned
    /\ req.in_loop
    /\ req.session_id = None
    /\ result.workflow_trace = "sync_execution"
    /\ wf_steps = 0

\* C19: the analysis a workflow run uses, parsed from the collaborator's
\* reply or the fallback, names at most two specialists, and the run
\* executes at most two specialists
C19_AtMostTwoSpecialists ==
    (pc # "idle" /\ OnWorkflowPath) =>
        /\ Len(obs.required) <= 2
        /\ Cardinality(ExecutedKeys) <= 2


(***************************************************************************)
(* AgentRouter (agent_router.py): keyword routing of a query to the        *)
(* specialists.  Every test is a substring test on the lowercased query.   *)
(***************************************************************************)
\* _analyze_query_intent
analyze_query_intent(query) ==
    [has_application_intent |->
        AnyIn(query, <<"apply", "application", "form", "process", "procedure",
                       "how to", "steps", "register", "enroll">>),
     has_eligibility_intent |->
        AnyIn(query, <<"eligible", "eligibility", "qualify", "criteria",
                       "requirement", "who can", "am i eligible">>),
     has_price_intent |->
        AnyIn(query, <<"price", "rate", "cost", "msp", "market", "mandi",
                       "selling", "trading", "value">>),
     has_forecast_intent |->
        AnyIn(query, <<"forecast", "prediction", "future", "next", "upcoming",
                       "tomorrow", "week", "will it">>),
     has_technical_intent |->
        AnyIn(query, <<"fertilizer", "pest", "disease", "npk", "spray",
                       "treatment", "cultivation", "spacing">>),
     mentions_government |->
        AnyIn(query, <<"government", "pm-kisan", "nabard", "ministry", "scheme",
                       "policy", "official">>),
     mentions_scheme |->
        AnyIn(query, <<"scheme", "program", "yojana", "benefit", "assistance",
                       "support">>),
     mentions_market |->
        AnyIn(query, <<"market", "mandi", "commodity", "trading", "exchange">>),
     mentions_weather |->
        AnyIn(query, <<"weather", "rain", "temperature", "climate", "forecast",
                       "storm">>)]

\* _is_policy_query
is_policy_query(query, intent) ==
    \/ AnyIn(query, <<"subsidy", "subsidies", "scheme", "policy", "government",
                      "pm-kisan", "nabard", "loan", "credit", "kcc",
                      "kisan credit card", "insurance", "pmfby", "fasal bima",
                      "pension", "pm-kmy", "grant", "benefit", "assistance",
                      "support", "yojana", "eligible", "eligibility", "apply",
                      "application", "form", "document">>)
    \/ /\ intent.has_application_intent \/ intent.has_eligibility_intent
       /\ intent.mentions_government \/ intent.mentions_scheme
    \/ AnyIn(query, <<"organic farming", "mechanization", "tractor loan",
                      "gold loan", "crop insurance", "pradhan mantri",
                      "central government", "state government">>)

\* _is_finance_query
is_finance_query(query, intent) ==
    \/ AnyIn(query, <<"market price", "msp", "minimum support price",
                      "commodity rate", "mandi rate", "trading price",
                      "selling price", "current price", "price trend",
                      "market analysis", "commodity exchange">>)
    \/ /\ intent.has_price_intent
       /\ intent.mentions_market
       /\ ~AnyIn(query, <<"loan", "credit", "subsidy", "scheme", "insurance">>)

\* _is_weather_query
is_weather_query(query, intent) ==
    \/ AnyIn(query, <<"weather", "forecast", "rain", "rainfall", "drought",
                      "temperature", "heat", "cold", "storm", "climate",
                      "season", "monsoon", "irrigation timing", "when to water",
                      "watering schedule">>)
    \/ AnyIn(query, <<"irrigation", "irrigate", "water", "watering">>)
    \/ AnyIn(query, <<"growing conditions", "suitable conditions",
                      "planting time">>)

\* _is_crop_query
is_crop_query(query, intent) ==
    \/ AnyIn(query, <<"fertilizer", "npk", "pest", "disease", "plant", "sow",
                      "transplant", "spacing", "cultivation", "farming practice",
                      "soil", "seed", "harvest", "crop management",
                      "plant protection", "nutrients">>)
    \/ intent.has_technical_intent

\* relevant_agents, appended in the order policy, finance, weather, crop
RelevantAgents(query_lower, intent_analysis) ==
    (IF is_policy_query(query_lower, intent_analysis) THEN <<"policy">> ELSE <<>>)
    \o (IF is_finance_query(query_lower, intent_analysis) THEN <<"finance">> ELSE <<>>)
    \o (IF is_weather_query(query_lower, intent_analysis) THEN <<"weather">> ELSE <<>>)
    \o (IF is_crop_query(query_lower, intent_analysis) THEN <<"crop">> ELSE <<>>)

DefaultedAgents(relevant_agents) ==
    IF relevant_agents = <<>> THEN <<"crop", "weather">> ELSE relevant_agents

WithIntent(query_lower) ==
    DefaultedAgents(RelevantAgents(query_lower, analyze_query_intent(query_lower)))

\* route_query(query, location, crop): location and crop are not read
route_query(query, location, crop) == WithIntent(Lower(query))

(***************************************************************************)
(* Specification of the router: route_query applied to the phrasings of    *)
(* test_intelligent_routing.py, each with every crop name in turn          *)
(***************************************************************************)
RouterCropNames ==
    {"wheat", "paddy", "cotton", "sugarcane", "tomatoes", "rice", "maize"}

\* a phrasing around a crop name, with the specialists its vocabulary names
RouterPhrasings ==
    {[head |-> "Current ", tail |-> " market price", expected |-> <<"finance">>],
     [head |-> "Mandi rates for ", tail |-> " today", expected |-> <<"finance">>],
     [head |-> "Trading prices for ", tail |-> "", expected |-> <<"finance">>],
     [head |-> "I need a loan for ", tail |-> " farming", expected |-> <<"policy">>],
     [head |-> "Rainfall predictions for ", tail |-> " farming",
      expected |-> <<"weather">>],
     [head |-> "NPK fertilizer recommendations for ", tail |-> "",
      expected |-> <<"crop">>],
     [head |-> "Pest control methods for ", tail |-> "", expected |-> <<"crop">>],
     [head |-> "Disease management in ", tail |-> "", expected |-> <<"crop">>],
     [head |-> "Best time to plant ", tail |-> " based on weather",
      expected |-> <<"weather", "crop">>],
     [head |-> "Tell me about ", tail |-> "", expected |-> <<>>]}

RouterCases ==
    {[query |-> p.head \o name \o p.tail, expected |-> p.expected] :
        p \in RouterPhrasings, name \in RouterCropNames}

RouterQueries == {c.query : c \in RouterCases}

RouteTable == [query \in RouterQueries |-> route_query(query, None, None)]

InitRouter ==
    /\ \E query \in RouterQueries :
          req = [query |-> query, location |-> None, crop |-> None]
    /\ sessions = <<>>
    /\ redis = <<>>
    /\ use_redis = FALSE
    /\ finance_sessions = <<>>
    /\ now = 0
    /\ clock = 0
    /\ generated = 0
    /\ ncalls = 0
    /\ pc = "route_query"
    /\ sid = None
    /\ wf = InitialState
    /\ wf_steps = 0
    /\ local = NoLocal
    /\ faults = NoFaults
    /\ result = NoResult
    /\ obs = NoObs

\* actual = router.route_query(query): result holds the returned list
RouteQuery ==
    /\ pc = "route_query"
    /\ result' = RouteTable[req.query]
    /\ pc' = "routed"
    /\ UNCHANGED <<sessions, redis, use_redis, finance_sessions, now, clock, generated, ncalls,
                   req, sid, wf, wf_steps, local, faults, obs>>

NextRouter == RouteQuery

SpecRouter == InitRouter /\ [][NextRouter]_vars

\* the specialists the phrasing of the routed query names
ExpectedAgents == (CHOOSE c \in RouterCases : c.query = req.query).expected

\* C20: route_query returns a non-empty list, and for a query whose
\* vocabulary belongs to exactly one category it returns the one-element
\* list of that category, whichever crop name the query mentions.
C20_SingleCategory ==
    pc = "routed" =>
        /\ result # <<>>
        /\ Len(ExpectedAgents) = 1 => result = ExpectedAgents


\* C21: once a step of a workflow run has recorded an error on the state,
\* no further specialist execution, synthesis or validation step runs in
\* that run.
C21_ErrorStopsRun ==
    [][(pc \in NodePcs /\ wf.error # "") =>
           /\ obs'.executed = obs.executed
           /\ obs'.synthesized = obs.synthesized
           /\ obs'.validated = obs.validated]_vars


\* the calls of specialist key made so far by the call in progress
TimesExecuted(key) ==
    Cardinality({k \in 1..Len(obs.executed) : obs.executed[k].agent = key})

\* C22: every workflow run reaches END, whatever the outcome of each
\* specialist call, after executing each required specialist at most once.
C22_RunEndsEachOnce ==
    (Returned /\ OnWorkflowPath) =>
        /\ "graph" \notin obs.raised
        /\ \A key \in AgentKeys : TimesExecuted(key) <= 1


\* the required specialists not yet represented among the collected results
StillPending == PendingAgents(wf.required_agents, ExecutedAgentNames(wf.agent_responses))

\* C23: at each routing step the specialist chosen for execution is the
\* first entry of required_agents not yet represented among the results.
C23_RequiredOrder ==
    \A key \in AgentKeys :
        pc = "execute_" \o key => (StillPending # <<>> /\ Head(StillPending) = key)


\* lines 280-295: the order of the router's if/elif chain
ExecutionPrecedence == <<"weather", "crop", "finance", "policy">>

\* C23 (amended): the specialist chosen for execution is pending, and no
\* pending specialist stands before it in the router's fixed order
\* weather, crop, finance, policy, whatever the order of required_agents.
C23_FixedOrder ==
    \A k \in 1..Len(ExecutionPrecedence) :
        pc = "execute_" \o ExecutionPrecedence[k] =>
            /\ InSeq(ExecutionPrecedence[k], StillPending)
            /\ \A j \in 1..(k - 1) : ~InSeq(ExecutionPrecedence[j], StillPending)

\* finance is chosen while policy, listed before it, is pending as well
C23_Witness ==
    /\ pc = "execute_finance"
    /\ StillPending = <<"policy", "finance">>


\* a validator reply that is no well-formed validation object: no JSON, a
\* JSON value that is no object, or an object without the two fields
MalformedValidation(reply) ==
    \/ ~json_parses(reply)
    \/ json_loads(reply).type # "object"
    \/ ~json_loads(reply).has_is_valid
    \/ ~json_loads(reply).has_final_confidence

\* C24: a malformed validator reply never turns a successfully synthesized
\* answer into an error: the answer and the pre-validation confidence stay.
C24_MalformedValidationKept ==
    [][(pc = "validate_response" /\ pc' = "wf_end" /\ wf.error = ""
           /\ MalformedValidation(obs'.validation)) =>
          /\ wf'.error = ""
          /\ wf'.final_answer = wf.final_answer
          /\ wf'.confidence = wf.confidence]_vars


\* the validation object that the defensive procedure of the analysis
\* (clean_json_response, then json.loads) finds in a validator reply
DefensiveValidation(reply) == json_loads(clean_json_response(reply))

IsValidationObject(reply) ==
    /\ json_parses(clean_json_response(reply))
    /\ DefensiveValidation(reply).type = "object"

\* C25: a validation object wrapped in code fences or prose is parsed as
\* the analysis output is: its final_confidence becomes the confidence and
\* its is_valid = false replaces the answer by the improvement reply.
C25_DefensiveValidation ==
    [][(pc = "validate_response" /\ pc' = "wf_end" /\ wf.error = ""
           /\ IsValidationObject(obs'.validation)) =>
          /\ DefensiveValidation(obs'.validation).has_final_confidence =>
                wf'.confidence = DefensiveValidation(obs'.validation).final_confidence
          /\ (/\ DefensiveValidation(obs'.validation).has_is_valid
              /\ ~DefensiveValidation(obs'.validation).is_valid) =>
                wf'.final_answer \in AdviceReplies]_vars


IsPrefix(s, t) == Len(s) <= Len(t) /\ SubSeq(t, 1, Len(s)) = s

\* profile after extends profile before: no type lost, each list a prefix
ProfileExtends(before, after) ==
    \A t \in DOMAIN before : t \in DOMAIN after /\ IsPrefix(before[t], after[t])

\* C26: user_profile is append-only: an interaction recorded on a session
\* (the clock of recorded interactions advances) removes no entity type
\* and leaves each type's previous value list as a prefix of the new one.
C26_ProfileAppendOnly ==
    [][clock' # clock =>
          \A id \in DOMAIN sessions :
              /\ id \in DOMAIN sessions'
              /\ ProfileExtends(sessions[id].user_profile, sessions'[id].user_profile)]_vars

\* two recorded interactions have each added a value of the same type
C26_Witness ==
    \E id \in DOMAIN sessions :
        /\ "land_size" \in DOMAIN sessions[id].user_profile
        /\ Len(sessions[id].user_profile["land_size"]) = 2
        /\ Len(sessions[id].conversation_history) = 2


(***************************************************************************)
(* Specification of one session's life: creation, interactions with every  *)
(* specialist's responses (the write to the mirror may fail), expiry,      *)
(* restarts and restores from the mirror                                   *)
(***************************************************************************)
MaxInteractions == 3

InitSession == Init

NextSession ==
    \/ \E session_id \in SessionIds : StoreGet(session_id)
    \/ \E session_id \in SessionIds, query \in StoreQueries, response \in AllResponses,
          setex_ok \in BOOLEAN :
             /\ clock < MaxInteractions
             /\ StoreUpdate(session_id, query, response, setex_ok)
    \/ \E d \in ElapseSteps : Elapse(d)
    \/ Restart

SpecSession == InitSession /\ [][NextSession]_vars

\* C27: in every session of the store (created, updated by an interaction
\* or restored from the mirror) active_agent is set exactly when
\* expecting_response is true, and pending_questions is empty whenever
\* expecting_response is false.
C27_ActiveIffExpecting ==
    \A id \in DOMAIN sessions :
        /\ (sessions[id].active_agent # None) <=> sessions[id].expecting_response
        /\ ~sessions[id].expecting_response => sessions[id].pending_questions = <<>>

\* a session restored from the mirror while a specialist waits for answers
C27_Witness ==
    \E id \in DOMAIN sessions :
        /\ sessions[id].expecting_response
        /\ sessions[id].pending_questions # <<>>
        /\ sessions[id].conversation_history # <<>>
        /\ sessions[id].last_updated >
              sessions[id].conversation_history[Len(sessions[id].conversation_history)].hour


(***************************************************************************)
(* The HTTP query handler (main.py, _run_query).  The result cache and the *)
(* session mirror are clients of the same key-value server (REDIS_URL):    *)
(* redis holds the cache entries under their own keys ("query:..."), and  *)
(* use_redis stands for the cache's enabled flag as well.  Every request   *)
(* of the model carries the same location and crop, so the cache key       *)
(* varies with the text alone.                                             *)
(***************************************************************************)
\* the X-Session-ID headers of the callers; None: no header
HttpSessionIds == {"sA", "sB"}

HttpQueries == {QueryBare, QueryScenario}

\* cache_service._generate_cache_key("query", text=, location=, crop=)
generate_cache_key(text) == "query:" \o text

\* cache_service.get(cache_key): the entry is there (TTL 30 minutes: it is
\* gone at the next hour of the model's clock)
CacheHas(text) == use_redis /\ RedisHas(redis, generate_cache_key(text), now)

\* str(uuid.uuid4())[:12]: a fresh id per request without header
HttpGeneratedId(n) == "uuid_" \o ToString(n)

\* _run_query, lines 252-277 and 368-380: a cache hit returns the cached
\* result; otherwise the session id is the header's or a fresh one and
\* supervisor.process_query runs (inside the server's event loop)
HttpRequest(text, header) ==
    /\ pc = "idle"
    /\ ncalls < MaxCalls
    /\ IF CacheHas(text)
       THEN /\ result' = [redis[generate_cache_key(text)].payload EXCEPT !.cache_hit = TRUE]
            /\ req' = [query |-> text, session_id |-> None, in_loop |-> TRUE,
                       header |-> header]
            /\ sid' = None
            /\ pc' = "http_done"
            /\ UNCHANGED generated
       ELSE /\ result' = NoResult
            /\ \E id \in {IF header = None THEN HttpGeneratedId(generated + 1) ELSE header} :
                  /\ req' = [query |-> text, session_id |-> id, in_loop |-> TRUE,
                             header |-> header]
                  /\ sid' = id
            /\ pc' = "sync_start"
            /\ generated' = IF header = None THEN generated + 1 ELSE generated
    /\ wf' = InitialState
    /\ wf_steps' = 0
    /\ local' = NoLocal
    /\ faults' = NoFaults
    /\ obs' = NoObs
    /\ UNCHANGED <<store_vars, ncalls>>

\* _run_query, lines 382-457: the result built from supervisor_response.
\* session_id is never empty, so the branch that answers from the static
\* documents (lines 403-408) is not taken.
HttpResult(supervisor_response, session_id) ==
    [answer               |-> supervisor_response.answer,
     evidence             |-> supervisor_response.evidence,
     confidence           |-> supervisor_response.confidence,
     agent_used           |-> supervisor_response.agent_used,
     agents_consulted     |-> supervisor_response.agents_consulted,
     workflow_trace       |-> supervisor_response.workflow_trace,
     cache_hit            |-> FALSE,
     session_id           |-> IF supervisor_response.has_session_id
                              THEN supervisor_response.session_id ELSE session_id,
     conversation_context |-> supervisor_response.conversation_context]

\* cache_service.set(cache_key, result, ttl=1800); a failing set is swallowed
CacheSet(mirror, text, value, set_ok, t) ==
    IF use_redis /\ set_ok
    THEN [k \in (DOMAIN mirror) \cup {generate_cache_key(text)} |->
             IF k = generate_cache_key(text)
             THEN [payload |-> value, expires_at |-> t + 1]
             ELSE mirror[k]]
    ELSE mirror

\* _run_query, lines 382-461, after supervisor.process_query has returned
HttpRespond ==
    /\ pc = "done"
    /\ \E http_result \in {HttpResult(result, req.session_id)} :
          /\ result' = http_result
          /\ \E set_ok \in (IF use_redis THEN BOOLEAN ELSE {TRUE}) :
                redis' = CacheSet(redis, req.query, http_result, set_ok, now)
    /\ pc' = "http_done"
    /\ UNCHANGED <<sessions, use_redis, finance_sessions, now, clock, generated, ncalls, req, sid,
                   wf, wf_steps, local, faults, obs>>

\* the handler returns the result to the caller
HttpReturn ==
    /\ pc = "http_done"
    /\ pc' = "idle"
    /\ ncalls' = ncalls + 1
    /\ req' = NoRequest
    /\ sid' = None
    /\ wf' = InitialState
    /\ wf_steps' = 0
    /\ local' = NoLocal
    /\ faults' = NoFaults
    /\ result' = NoResult
    /\ obs' = NoObs
    /\ UNCHANGED <<store_vars, generated>>

InitHttp == Init

NextHttp ==
    \/ \E text \in HttpQueries, header \in HttpSessionIds \cup {None} :
          HttpRequest(text, header)
    \/ SyncGetContext
    \/ SyncCheck
    \/ RouteToActiveAgent
    \/ SelectAnalyze
    \/ SelectExecute
    \/ SyncUpdate
    \/ HttpRespond
    \/ HttpReturn
    \/ Elapse(SessionTimeoutHours + 1)

SpecHttp == InitHttp /\ [][NextHttp]_vars

\* C28: the handler returns to a caller who sent X-Session-ID that same
\* session_id and a conversation_context of that session only, also when
\* an earlier request with the same text came from another session.
C28_OwnSessionOnly ==
    (pc = "http_done" /\ req.header # None) =>
        /\ result.session_id = req.header
        /\ result.conversation_context.session_id \in {req.header, None}


(***************************************************************************)
(* The finance specialist's own session store (finance_session.py) and     *)
(* the part of FinanceAgent.process_query that reads and writes it.        *)
(* finance_sessions is touched by the actions of this section only.        *)
(***************************************************************************)
\* finance_session.py:18 timedelta(hours=2)
FinanceTimeoutHours == 2

\* float(text) of a run of digits, as a whole number
RECURSIVE DigitsValue(_)
DigitsValue(text) ==
    IF text = "" THEN 0
    ELSE 10 * DigitsValue(SubSeq(text, 1, Len(text) - 1))
         + (CHOOSE d \in 0..9 : ToString(d) = SubSeq(text, Len(text), Len(text)))

\* re.search(r'(\d+(?:\.\d+)?)\s*acres?', q): the start of the leftmost
\* match, 0 when there is none
AcresMatchAt(q, i) ==
    IsDigitAt(q, i) /\ StartsAt(q, SkipSpaces(q, NumEnd(q, i) + 1), "acre")
AcresStart(q) ==
    IF \E i \in 1..Len(q) : AcresMatchAt(q, i)
    THEN CHOOSE i \in 1..Len(q) :
            AcresMatchAt(q, i) /\ \A j \in 1..(i - 1) : ~AcresMatchAt(q, j)
    ELSE 0

\* index behind an optional rs / rs. and the spaces after it
AfterCurrency(q, j) ==
    IF StartsAt(q, j, "rs.") THEN SkipSpaces(q, j + 3)
    ELSE IF StartsAt(q, j, "rs") THEN SkipSpaces(q, j + 2)
    ELSE j

\* re.search(r'spend\s+(?:rs\.?\s*|<rupee>\s*)?(\d+)\s+on\s+fertilizer[s]?', q):
\* the start of the digits of the match that begins at i, 0 when none
SpendOnFertilizerDigits(q, i) ==
    LET d == AfterCurrency(q, SkipSpaces(q, i + 5))
        e == DigitsEnd(q, d)
        o == SkipSpaces(q, e + 1)
    IN  IF /\ StartsAt(q, i, "spend") /\ IsSpaceAt(q, i + 5)
           /\ e >= d /\ IsSpaceAt(q, e + 1)
           /\ StartsAt(q, o, "on") /\ IsSpaceAt(q, o + 2)
           /\ StartsAt(q, SkipSpaces(q, o + 2), "fertilizer")
        THEN d ELSE 0

FertilizerStart(q) ==
    IF \E i \in 1..Len(q) : SpendOnFertilizerDigits(q, i) > 0
    THEN SpendOnFertilizerDigits(q,
            CHOOSE i \in 1..Len(q) :
               /\ SpendOnFertilizerDigits(q, i) > 0
               /\ \A j \in 1..(i - 1) : SpendOnFertilizerDigits(q, j) = 0)
    ELSE 0

\* FinanceAgent._extract_financial_data_from_query over query.lower(), for
\* queries that can match the first land pattern and the first fertilizer
\* pattern only (whole numbers; the other patterns need words that the
\* queries of the model do not hold): a dict of the fields that matched
ExtractedFields(q) ==
    [f \in ({"land_size_acres"} \cap (IF AcresStart(q) > 0 THEN {"land_size_acres"} ELSE {}))
           \cup ({"fertilizer_cost"} \cap (IF FertilizerStart(q) > 0 THEN {"fertilizer_cost"} ELSE {}))
       |-> IF f = "land_size_acres"
           THEN DigitsValue(SubSeq(q, AcresStart(q), DigitsEnd(q, AcresStart(q))))
           ELSE DigitsValue(SubSeq(q, FertilizerStart(q), DigitsEnd(q, FertilizerStart(q))))]

extract_financial_data_from_query(query) == ExtractedFields(Lower(query))

FinanceQueries ==
    {"My farm is 5 acres", "I spend 30000 on fertilizer", "What should I do next",
     "I have 12 acres and spend Rs. 45000 on fertilizers"}

FinanceExtractTable ==
    [query \in FinanceQueries |-> extract_financial_data_from_query(query)]

FinanceSessionIds == {"f1"}

\* str(uuid.uuid4())[:8]
FinanceGeneratedId(n) == "fin_" \o ToString(n)

\* FinanceSessionManager.get_or_create_session: the sessions afterwards
finance_get_or_create_session(fs, user_id, t) ==
    IF user_id \in DOMAIN fs THEN fs
    ELSE [id \in (DOMAIN fs) \cup {user_id} |->
             IF id = user_id
             THEN [last_updated         |-> t,
                   financial_data       |-> <<>>,
                   conversation_history |-> <<>>,
                   form_completed       |-> FALSE]
             ELSE fs[id]]

\* dict.update: the keys of extracted_data replace those of financial_data
DictUpdate(financial_data, extracted_data) ==
    [f \in (DOMAIN financial_data) \cup (DOMAIN extracted_data) |->
        IF f \in DOMAIN extracted_data THEN extracted_data[f] ELSE financial_data[f]]

\* FinanceSessionManager._check_form_completion
check_form_completion(financial_data) ==
    {"land_size_acres", "annual_production", "fertilizer_cost", "water_cost"}
        \subseteq DOMAIN financial_data

\* FinanceSessionManager.update_session_data: the sessions afterwards
finance_update_session_data(fs, session_id, query, extracted_data, t) ==
    IF session_id \notin DOMAIN fs THEN fs
    ELSE [fs EXCEPT ![session_id] =
             [last_updated         |-> t,
              financial_data       |-> DictUpdate(@.financial_data, extracted_data),
              conversation_history |-> Append(@.conversation_history,
                                              [hour |-> t, query |-> query,
                                               extracted_data |-> extracted_data]),
              form_completed       |->
                  check_form_completion(DictUpdate(@.financial_data, extracted_data))]]

\* FinanceSessionManager.get_session_data: the session is there and has
\* not expired
FinanceSessionLive(fs, session_id, t) ==
    /\ session_id \in DOMAIN fs
    /\ ~(t - fs[session_id].last_updated > FinanceTimeoutHours)

\* FinanceSessionManager.get_session_data: the sessions afterwards (an
\* expired session is deleted)
finance_get_session_data(fs, session_id, t) ==
    IF session_id \in DOMAIN fs /\ ~FinanceSessionLive(fs, session_id, t)
    THEN [id \in (DOMAIN fs) \ {session_id} |-> fs[id]]
    ELSE fs

\* the locals of FinanceAgent.process_query after line 567, from the
\* sessions fs left by update_session_data
FinanceLocals(fs, session_id, extracted_data, t) ==
    [session_id         |-> session_id,
     extracted_data     |-> extracted_data,
     all_financial_data |-> IF FinanceSessionLive(fs, session_id, t)
                            THEN fs[session_id].financial_data ELSE extracted_data,
     form_completed     |-> IF FinanceSessionLive(fs, session_id, t)
                            THEN fs[session_id].form_completed ELSE FALSE]

\* FinanceAgent.process_query, lines 521-567 (no conversation context is
\* passed): get_or_create_session, update_session_data, get_session_data.
\* local holds the locals from which the rest of the call builds its answer.
FinanceProcessQuery(query, session_id) ==
    /\ pc = "idle"
    /\ ncalls < MaxCalls
    /\ \E id \in {IF session_id = None THEN FinanceGeneratedId(generated + 1) ELSE session_id},
          extracted_data \in {FinanceExtractTable[query]} :
          \E updated \in {finance_update_session_data(
                             finance_get_or_create_session(finance_sessions, id, now),
                             id, query, extracted_data, now)} :
             /\ finance_sessions' = finance_get_session_data(updated, id, now)
             /\ local' = FinanceLocals(updated, id, extracted_data, now)
    /\ generated' = IF session_id = None THEN generated + 1 ELSE generated
    /\ ncalls' = ncalls + 1
    /\ UNCHANGED <<sessions, redis, use_redis, now, clock, pc, req, sid, wf, wf_steps,
                   faults, result, obs>>

InitFinance == Init

NextFinance ==
    \/ \E query \in FinanceQueries, session_id \in FinanceSessionIds \cup {None} :
          FinanceProcessQuery(query, session_id)
    \/ \E d \in ElapseSteps : Elapse(d)

SpecFinance == InitFinance /\ [][NextFinance]_vars

\* C29: a finance session expires after 2 hours without an update: a call
\* on a session last updated more than 2 hours before answers from the
\* data of its own query only, not from the data stored before.
C29_ExpiredDataUnused ==
    [][\A id \in DOMAIN finance_sessions :
          (/\ ncalls' # ncalls
           /\ local'.session_id = id
           /\ now - finance_sessions[id].last_updated > FinanceTimeoutHours) =>
              local'.all_financial_data = local'.extracted_data]_vars


(***************************************************************************)
(* Specification of two requests on one session id that run               *)
(* _process_query_sync in one process and interleave at its step           *)
(* boundaries: get_or_create_context, the continuation check, the          *)
(* specialist's call, update_context.  In this specification pc, req,      *)
(* local, result and obs hold one value per request.                       *)
(***************************************************************************)
Requests == {1, 2}

ConcurrentQueries == {QueryBare, QueryScenario}

\* the store before the two requests: empty, or the session after one
\* recorded interaction
ConcurrentStores == {<<>>} \cup {[id \in {"s1"} |-> ctx] : ctx \in HeurContexts}

InitConcurrent ==
    /\ sessions \in ConcurrentStores
    /\ redis = <<>>
    /\ use_redis \in BOOLEAN
    /\ finance_sessions = <<>>
    /\ now = 0
    /\ clock = 1
    /\ generated = 0
    /\ ncalls = 0
    /\ pc = [r \in Requests |-> "sync_start"]
    /\ req \in [Requests -> {[query |-> q, session_id |-> "s1", in_loop |-> FALSE] :
                                q \in ConcurrentQueries}]
    /\ sid = "s1"
    /\ wf = InitialState
    /\ wf_steps = 0
    /\ local = [r \in Requests |-> NoLocal]
    /\ faults = NoFaults
    /\ result = [r \in Requests |-> NoResult]
    /\ obs = [r \in Requests |-> [recorded_at |-> 0, failed |-> FALSE]]

\* _process_query_sync, line 1048: get_or_create_context
ConcurrentGet(r) ==
    /\ pc[r] = "sync_start"
    /\ sessions' = get_or_create_context(sessions, redis, use_redis, sid, now)
    /\ pc' = [pc EXCEPT ![r] = "sync_check"]
    /\ UNCHANGED <<redis, use_redis, finance_sessions, now, clock, generated, ncalls, req,
                   sid, wf, wf_steps, local, faults, result, obs>>

\* _process_query_sync, lines 1050-1060: the continuation check
ConcurrentCheck(r) ==
    /\ pc[r] = "sync_check"
    /\ \E c \in {should_route_to_active_agent(sessions, sid, req[r].query)} :
          /\ local' = [local EXCEPT ![r].is_response_to_agent = c[1],
                                    ![r].active_agent = c[2]]
          /\ pc' = [pc EXCEPT ![r] = IF RoutesToActive(c) /\ AgentKeyOf(c[2]) \in AgentKeys
                                     THEN "route_active" ELSE "select"]
    /\ UNCHANGED <<store_vars, generated, ncalls, req, sid, wf, wf_steps, faults, result, obs>>

\* _route_to_active_agent, lines 770-799: the active specialist answers, or
\* its call raises and the selection takes over
ConcurrentRouteToActive(r) ==
    /\ pc[r] = "route_active"
    /\ \/ \E response \in AgentResponses(AgentKeyOf(local[r].active_agent)) :
             /\ local' = [local EXCEPT ![r].agent_name = local[r].active_agent,
                                       ![r].response = response]
             /\ pc' = [pc EXCEPT ![r] = "sync_update"]
       \/ /\ pc' = [pc EXCEPT ![r] = "select"]
          /\ UNCHANGED local
    /\ UNCHANGED <<store_vars, generated, ncalls, req, sid, wf, wf_steps, faults, result, obs>>

\* the required_agents[0] if required_agents else "crop" of line 732
FirstRequired(analysis) ==
    IF analysis.agents_kind = "absent" \/ analysis.required_agents = <<>> THEN "crop"
    ELSE analysis.required_agents[1]

\* _pure_llm_agent_selection, lines 722-768: the analysis and the selected
\* specialist's call; an exception leaves through the except block of
\* line 1087
ConcurrentSelect(r) ==
    /\ pc[r] = "select"
    /\ \E reply \in AnalysisReplies :
          \E analysis \in {llm_query_analysis(reply)} :
             \/ /\ analysis.agents_kind # "number"
                /\ \E response \in AgentResponses(SelectedKey(FirstRequired(analysis))) :
                      local' = [local EXCEPT
                                   ![r].selected_agent = FirstRequired(analysis),
                                   ![r].agent_name = response.agent,
                                   ![r].response = response]
                /\ pc' = [pc EXCEPT ![r] = "sync_update"]
                /\ UNCHANGED <<result, obs>>
             \/ /\ pc' = [pc EXCEPT ![r] = "done"]
                /\ result' = [result EXCEPT ![r] =
                                 ErrorResult("specialist or analysis failed",
                                             "supervisor_sync", "sync_error")]
                /\ obs' = [obs EXCEPT ![r].failed = TRUE]
                /\ UNCHANGED local
    /\ UNCHANGED <<store_vars, generated, ncalls, req, sid, wf, wf_steps, faults>>

\* _process_query_sync, lines 1062-1085: update_context, then the result
ConcurrentUpdate(r) ==
    /\ pc[r] = "sync_update"
    /\ \E setex_ok \in (IF use_redis THEN BOOLEAN ELSE {TRUE}) :
          \E after \in {update_context_sessions(sessions, sid, req[r].query,
                                                  local[r].agent_name, local[r].response,
                                                  ResponseTable[local[r].response].followup,
                                                  clock + 1, now)} :
              /\ sessions' = after
              /\ redis' = update_context_mirror(redis, after, use_redis, setex_ok, sid, now)
              /\ result' = [result EXCEPT ![r] =
                               SyncResult(after, sid, local[r].agent_name, local[r].response)]
    /\ clock' = clock + 1
    /\ obs' = [obs EXCEPT ![r].recorded_at = clock + 1]
    /\ pc' = [pc EXCEPT ![r] = "done"]
    /\ ncalls' = ncalls + 1
    /\ UNCHANGED <<use_redis, finance_sessions, now, generated, req, sid, wf, wf_steps,
                   local, faults>>

NextConcurrent ==
    \E r \in Requests :
        \/ ConcurrentGet(r)
        \/ ConcurrentCheck(r)
        \/ ConcurrentRouteToActive(r)
        \/ ConcurrentSelect(r)
        \/ ConcurrentUpdate(r)

SpecConcurrent == InitConcurrent /\ [][NextConcurrent]_vars

\* both requests have returned and neither met a failing collaborator
BothAnswered ==
    \A r \in Requests : pc[r] = "done" /\ ~obs[r].failed

\* the request whose update_context ran last
LastWriter == CHOOSE r \in Requests : \A o \in Requests : obs[o].recorded_at <= obs[r].recorded_at

\* the interaction of request r is in the session's history
InHistory(r) ==
    \E k \in 1..Len(sessions["s1"].conversation_history) :
        LET entry == sessions["s1"].conversation_history[k]
        IN  /\ entry.timestamp = obs[r].recorded_at
            /\ entry.query = req[r].query
            /\ entry.agent_used = local[r].agent_name

\* the response of request r leaves its specialist waiting for an answer
LeavesActive(r) ==
    Asks(ResponseTable[local[r].response].followup, ResponseTable[local[r].response])

\* C30: two requests on one session id interleaved at the step boundaries
\* both return well-formed results, both interactions are in the history,
\* and active_agent and expecting_response are those set by the update
\* that ran last.
C30_LastWriteWins ==
    BothAnswered =>
        /\ \A r \in Requests :
              /\ result[r].has_session_id /\ result[r].session_id = "s1"
              /\ result[r].answer # ""
              /\ result[r].agents_consulted = <<local[r].agent_name>>
              /\ result[r].conversation_context.session_id = "s1"
              /\ InHistory(r)
        /\ obs[1].recorded_at # obs[2].recorded_at
        /\ sessions["s1"].expecting_response = LeavesActive(LastWriter)
        /\ sessions["s1"].active_agent =
              IF LeavesActive(LastWriter) THEN local[LastWriter].agent_name ELSE None

\* the second request passed the continuation check before the first one's
\* update and its own update ran last, after a response that asks
C30_Witness ==
    /\ BothAnswered
    /\ LastWriter = 2
    /\ local[2].is_response_to_agent
    /\ local[1].agent_name # local[2].agent_name
    /\ LeavesActive(1) /\ ~LeavesActive(2)

====
